---- MODULE Spec2Model ----
(***************************************************************************)
(* Model of the Universal-Search text chunker                              *)
(* (src/src/universal_search/chunkers/text_chunker.py) and of the parse    *)
(* stage and the chunk stage of the pipeline, each in its two              *)
(* implementations: the Flink functions DriveFileParserFunction and        *)
(* FileChunkerFunction (src/src/universal_search/flink_jobs/) and the      *)
(* loops of PipelineDemo (src/demo_pipeline.py).                           *)
(*                                                                         *)
(* Three specifications: Spec (the text chunker alone), ParseSpec (the     *)
(* parse stage) and ChunkSpec (the chunk stage, which runs the chunker).   *)
(*                                                                         *)
(* A text is a sequence of code points.  The Python str argument of        *)
(* chunk_text may also be None, so an argument is a record: None, or       *)
(* Str(s) for the string whose characters are the sequence s.              *)
(***************************************************************************)
EXTENDS Integers, Sequences, FiniteSets, TLC

VARIABLES
    pc,            \* "new" | "init_error" | "ready" | "loop" | "done" | "cleaned"
                   \* | "done_simple"
    args,          \* the arguments given to TextChunker(window_size, overlap)
    chunker,       \* the constructed TextChunker (its fields), or NoChunker
    error,         \* message of the ValueError raised by __init__, "" if none
    text,          \* argument text of the running call
    file_id,       \* argument file_id of the running call
    cleaned_text,  \* local cleaned_text of chunk_text / result of _clean_text
    chunks,        \* local list chunks of chunk_text
    start_pos,     \* local start_pos of chunk_text
    chunk_index,   \* local chunk_index of chunk_text
    iter_log,      \* history: one entry per iteration of the while loop
    result,        \* the list chunk_text returned
    impl,          \* the implementation that runs: "flink" | "demo" | "none"
    index,         \* last processed modifiedTime by file id (Flink keyed
                   \* state last_processed_time / demo dict processed_files)
    store,         \* content of the storage adapter, by storage path
    seen,          \* history: the file records that reached the download
    call,          \* history: what the last call of the stage did
    runner,        \* the demo loop that runs: "parser" | "chunker" | "none"
    max_files,     \* argument max_files of the loop
    rpc,           \* "idle" | "running" | "finally" | "stopped"
    files_processed,   \* local files_processed of the loop
    no_message_count,  \* local no_message_count of the loop
    bus,           \* the consumer and the producer: subscribed or not, the
                   \* number of flushes and of closes
    out,           \* history: the records produced to the output topic
    hist,          \* history of the loop: messages received, empty polls
                   \* in a row, why it stopped
    job,           \* the DriveStreamingJob (its fields), or NoJob
    jrun,          \* the call of run() under way: its position and locals
    jhist,         \* history of the job: pages requested, files sent
    topic,         \* the parsed-files topic: the records the parse stage
                   \* wrote, each with the text that was extracted for it
    offset,        \* number of records of the topic the chunk stage has read
    loaded,        \* history: what the chunk stage loaded for each record
    disk,          \* the files under storage_root, by path below the root
    sop            \* history: the last operation of the storage adapter

chunkerVars == <<pc, args, chunker, error, text, file_id, cleaned_text,
                 chunks, start_pos, chunk_index, iter_log, result>>

parseVars == <<impl, index, store, seen, call>>

runnerVars == <<runner, max_files, rpc, files_processed, no_message_count,
                bus, out, hist>>

jobVars == <<job, jrun, jhist>>

stageVars == <<topic, offset, loaded>>

storageVars == <<disk, sop>>

vars == <<chunkerVars, parseVars, runnerVars, jobVars, stageVars,
          storageVars>>

\* no call of a stage was made yet
NoCall == [made |-> FALSE]

\* no demo loop is running
RunnerIdle ==
    /\ runner = "none"
    /\ max_files = 0
    /\ rpc = "idle"
    /\ files_processed = 0
    /\ no_message_count = 0
    /\ bus = [subscribed |-> FALSE, flushes |-> 0, closes |-> 0]
    /\ out = <<>>
    /\ hist = [received |-> 0, empty_polls |-> 0, cause |-> "none"]

\* no streaming job was created
NoJob == [created |-> FALSE]

JobIdle ==
    /\ job = NoJob
    /\ jrun = [pc |-> "none"]
    /\ jhist = <<>>

\* nothing was written to the parsed-files topic
StageIdle ==
    /\ topic = <<>>
    /\ offset = 0
    /\ loaded = <<>>

\* no storage root is in use
StorageIdle ==
    /\ disk = <<>>
    /\ sop = [op |-> "none"]

\* the parse stage is not running
ParseIdle ==
    /\ impl = "none"
    /\ index = <<>>
    /\ store = <<>>
    /\ seen = {}
    /\ call = NoCall

---------------------------------------------------------------------------
(* Bounds of the model *)

\* longest text of the exhaustive family of short texts
MaxLen == 5
\* length of the long texts (longer than window 120 plus the lookbacks)
LongLen == 200
\* iterations of the while loop the model follows (the loop may not end)
MaxChunks == 7

(* Program constants *)

\* text_chunker.py:157  search_start = max(0, len(chunk_text) - 100)
SentenceLookback == 100
\* text_chunker.py:167  search_start = max(0, len(chunk_text) - 50)
WordLookback == 50

---------------------------------------------------------------------------
(* Characters *)

\* text_chunker.py:169  if chunk_text[i] == ' '
SPACE == 32

\* str.isspace() / regex \s on str: the same code points
WhitespaceChars ==
    {9, 10, 11, 12, 13, 28, 29, 30, 31, 32, 133, 160, 5760} \cup (8192..8202)
        \cup {8232, 8233, 8239, 8287, 12288}

\* the class [\x00-\x08\x0B\x0C\x0E-\x1F\x7F] of _clean_text
ControlChars == (0..8) \cup {11, 12} \cup (14..31) \cup {127}

\* sentence_endings = ['.', '!', '?', '\n']
sentence_endings == {46, 33, 63, 10}

Min(a, b) == IF a < b THEN a ELSE b
Max(a, b) == IF a > b THEN a ELSE b
SetMin(S) == CHOOSE x \in S : \A y \in S : x <= y
SetMax(S) == CHOOSE x \in S : \A y \in S : x >= y

None == [none |-> TRUE]
Str(s) == [none |-> FALSE, s |-> s]

\* Python slice s[a:b] (0-based, half open, indices clipped, negative ones
\* counted from the end)
PySliceIndex(i, n) == IF i < 0 THEN Max(n + i, 0) ELSE Min(i, n)
PySlice(s, a, b) ==
    LET lo == PySliceIndex(a, Len(s))
        hi == PySliceIndex(b, Len(s))
    IN  IF lo >= hi THEN <<>> ELSE SubSeq(s, lo + 1, hi)

\* s.strip()
Strip(s) ==
    LET keep == {i \in 1..Len(s) : s[i] \notin WhitespaceChars}
    IN  IF keep = {} THEN <<>> ELSE SubSeq(s, SetMin(keep), SetMax(keep))

\* re.sub(r'\s+', ' ', s): every maximal run of whitespace becomes one space
\* (the first character of a run is replaced by ' ', the others are dropped)
IsKept(c) == c >= 0
SubWhitespace(s) ==
    LET marked == [i \in 1..Len(s) |->
                      IF s[i] \notin WhitespaceChars THEN s[i]
                      ELSE IF i > 1 /\ s[i - 1] \in WhitespaceChars
                           THEN -1 ELSE SPACE]
    IN  SelectSeq(marked, IsKept)

\* re.sub(r'[\x00-\x08\x0B\x0C\x0E-\x1F\x7F]', '', s)
IsNotControl(c) == c \notin ControlChars
SubControl(s) == SelectSeq(s, IsNotControl)

\* TextChunker._clean_text
_clean_text(t) ==
    IF t = None \/ t.s = <<>> THEN <<>>
    ELSE Strip(SubControl(SubWhitespace(t.s)))

---------------------------------------------------------------------------
(* TextChunker.__init__ *)

NoChunker == [constructed |-> FALSE]

\* a slip: the first validation lets overlap = window_size pass
InitError_gt(w, o) ==
    IF o > w THEN "Overlap must be less than window size"
    ELSE IF w <= 0 \/ o < 0
         THEN "Window size must be positive and overlap must be non-negative"
         ELSE ""

\* the two validations of __init__, in the order of the code; "" = no error
InitError(w, o) ==
    IF o >= w THEN "Overlap must be less than window size"
    ELSE IF w <= 0 \/ o < 0
         THEN "Window size must be positive and overlap must be non-negative"
         ELSE ""

Construct ==
    /\ pc = "new"
    /\ LET e == InitError(args.window_size, args.overlap)
       IN  /\ error' = e
           /\ IF e = ""
              THEN /\ chunker' = [constructed |-> TRUE,
                                  window_size |-> args.window_size,
                                  overlap |-> args.overlap]
                   /\ pc' = "ready"
              ELSE /\ chunker' = NoChunker
                   /\ pc' = "init_error"
    /\ UNCHANGED <<args, text, file_id, cleaned_text, chunks, start_pos,
                   chunk_index, iter_log, result>>

---------------------------------------------------------------------------
(* TextChunker._break_at_boundary *)

\* for i in range(hi, lo - 1, -1): if chunk[i] in targets: return i
\* (0-based i): the first hit of the backward scan, -1 when the loop ends
\* without one
ScanBack(chunk, hi, lo, targets) ==
    LET hits == {i \in lo..hi : chunk[i + 1] \in targets}
    IN  IF hits = {} THEN -1 ELSE SetMax(hits)

\* a slip: the word break keeps the space (i + 1 as in the sentence break)
_break_at_boundary_keepspace(t, start, end) ==
    LET chunk_text == PySlice(t, start, end)
        n == Len(chunk_text)
        s == ScanBack(chunk_text, n - 1, Max(0, n - SentenceLookback),
                      sentence_endings)
        w == ScanBack(chunk_text, n - 1, Max(0, n - WordLookback), {SPACE})
    IN  IF s >= 0 THEN <<PySlice(t, start, start + s + 1), start + s + 1>>
        ELSE IF w >= 0
             THEN <<PySlice(t, start, start + w + 1), start + w + 1>>
             ELSE <<chunk_text, end>>

\* a slip: the end of a sentence break is returned relative to the chunk,
\* the start not added
_break_at_boundary_relative(t, start, end) ==
    LET chunk_text == PySlice(t, start, end)
        n == Len(chunk_text)
        s == ScanBack(chunk_text, n - 1, Max(0, n - SentenceLookback),
                      sentence_endings)
        w == ScanBack(chunk_text, n - 1, Max(0, n - WordLookback), {SPACE})
    IN  IF s >= 0 THEN <<PySlice(t, start, start + s + 1), s + 1>>
        ELSE IF w >= 0 THEN <<PySlice(t, start, start + w), start + w>>
             ELSE <<chunk_text, end>>

\* a slip: the shortened end is returned with the unshortened chunk text
_break_at_boundary_noslice(t, start, end) ==
    LET chunk_text == PySlice(t, start, end)
        n == Len(chunk_text)
        s == ScanBack(chunk_text, n - 1, Max(0, n - SentenceLookback),
                      sentence_endings)
        w == ScanBack(chunk_text, n - 1, Max(0, n - WordLookback), {SPACE})
    IN  IF s >= 0 THEN <<chunk_text, start + s + 1>>
        ELSE IF w >= 0 THEN <<chunk_text, start + w>>
             ELSE <<chunk_text, end>>

\* returns <<chunk_text, actual_end_pos>>
_break_at_boundary(t, start, end) ==
    LET chunk_text == PySlice(t, start, end)
        n == Len(chunk_text)
        s == ScanBack(chunk_text, n - 1, Max(0, n - SentenceLookback),
                      sentence_endings)
        w == ScanBack(chunk_text, n - 1, Max(0, n - WordLookback), {SPACE})
    IN  IF s >= 0 THEN <<PySlice(t, start, start + s + 1), start + s + 1>>
        ELSE IF w >= 0 THEN <<PySlice(t, start, start + w), start + w>>
             ELSE <<chunk_text, end>>

---------------------------------------------------------------------------
(* TextChunker.chunk_text *)

\* a slip: only "if not text", the whitespace-only check left out
NoText_nostrip(t) == t = None \/ t.s = <<>>

\* if not text or not text.strip()
NoText(t) == t = None \/ t.s = <<>> \/ Strip(t.s) = <<>>

\* a slip: < for <=
FitsSingleChunk_lt(c) == Len(c) < chunker.window_size

\* if len(cleaned_text) <= self.window_size
FitsSingleChunk(c) == Len(c) <= chunker.window_size

\* f"{file_id}_chunk_{chunk_index}"
ChunkId(fid, k) == fid \o "_chunk_" \o ToString(k)

TextChunk(id, k, t, s, e, total) ==
    [chunk_id |-> id, chunk_index |-> k, text |-> t,
     start_position |-> s, end_position |-> e, total_chunks |-> total]

\* a slip: the window is taken one character too long
EndPos_wide(start) == Min(start + chunker.window_size + 1, Len(cleaned_text))

\* a slip: the end is not capped at the length of the text
EndPos_nomin(start) == start + chunker.window_size

\* end_pos = min(start_pos + self.window_size, len(cleaned_text))
EndPos(start) == Min(start + chunker.window_size, Len(cleaned_text))

\* a slip: the overlap is added instead of subtracted
Advance_plus(last) ==
    LET s == last.end_position + chunker.overlap
    IN  IF s <= last.start_position
        THEN [start_pos |-> last.end_position, forced |-> TRUE]
        ELSE [start_pos |-> s, forced |-> FALSE]

\* start_pos = end_pos - self.overlap, and the guard of lines 110-112;
\* forced tells whether the guard fired
Advance(last) ==
    LET s == last.end_position - chunker.overlap
    IN  IF s <= last.start_position
        THEN [start_pos |-> last.end_position, forced |-> TRUE]
        ELSE [start_pos |-> s, forced |-> FALSE]

\* a slip: the placeholder total_chunks = 0 is never updated
UpdateTotalChunks_skip(cs) == cs

\* for chunk in chunks: chunk.total_chunks = len(chunks)
UpdateTotalChunks(cs) ==
    [i \in 1..Len(cs) |-> [cs[i] EXCEPT !.total_chunks = Len(cs)]]

\* lines 58-79: the early returns and the set-up of the loop
ChunkTextBegin(t, fid) ==
    /\ pc = "ready"
    /\ text' = t
    /\ file_id' = fid
    /\ IF NoText(t)
       THEN /\ result' = <<>>
            /\ pc' = "done"
            /\ UNCHANGED <<cleaned_text, chunks, start_pos, chunk_index>>
       ELSE LET c == _clean_text(t)
            IN  /\ cleaned_text' = c
                /\ IF FitsSingleChunk(c)
                   THEN /\ result' = <<TextChunk(ChunkId(fid, 0), 0, c, 0,
                                                 Len(c), 1)>>
                        /\ pc' = "done"
                        /\ UNCHANGED <<chunks, start_pos, chunk_index>>
                   ELSE /\ chunks' = <<>>
                        /\ start_pos' = 0
                        /\ chunk_index' = 0
                        /\ pc' = "loop"
                        /\ UNCHANGED result
    /\ UNCHANGED <<args, chunker, error, iter_log>>

\* lines 81-112: one iteration of the while loop
ChunkTextLoop ==
    /\ pc = "loop"
    /\ start_pos < Len(cleaned_text)
    /\ Len(chunks) < MaxChunks
    /\ LET end_pos == EndPos(start_pos)
           adjust == end_pos < Len(cleaned_text)
           br == IF adjust
                 THEN _break_at_boundary(cleaned_text, start_pos, end_pos)
                 ELSE <<PySlice(cleaned_text, start_pos, end_pos), end_pos>>
           chunk == TextChunk(ChunkId(file_id, chunk_index), chunk_index,
                              br[1], start_pos, br[2], 0)
           adv == Advance(chunk)
       IN  /\ chunks' = Append(chunks, chunk)
           /\ start_pos' = adv.start_pos
           /\ chunk_index' = chunk_index + 1
           /\ iter_log' = Append(iter_log,
                  [tentative_end |-> end_pos,
                   adjusted |-> adjust,
                   forced |-> adv.forced])
    /\ UNCHANGED <<pc, args, chunker, error, text, file_id, cleaned_text,
                   result>>

\* lines 114-119: the loop has ended, total_chunks is set and the list
\* returned
ChunkTextReturn ==
    /\ pc = "loop"
    /\ ~(start_pos < Len(cleaned_text))
    /\ result' = UpdateTotalChunks(chunks)
    /\ pc' = "done"
    /\ UNCHANGED <<args, chunker, error, text, file_id, cleaned_text, chunks,
                   start_pos, chunk_index, iter_log>>

\* a direct call of _clean_text
CleanTextCall(t) ==
    /\ pc = "ready"
    /\ text' = t
    /\ cleaned_text' = _clean_text(t)
    /\ pc' = "cleaned"
    /\ UNCHANGED <<args, chunker, error, file_id, chunks, start_pos,
                   chunk_index, iter_log, result>>

\* range(0, n, step) of line 207, as the sequence of its values
Range0(n, step) == [k \in 1..((n + step - 1) \div step) |-> (k - 1) * step]

\* the step of the for loop of line 207
SimpleStep == chunker.window_size - chunker.overlap

\* lines 204-220: one chunk per value of i, total_chunks still 0
SimpleChunks(cleaned, fid) ==
    LET starts == Range0(Len(cleaned), SimpleStep)
    IN  [k \in 1..Len(starts) |->
            LET i == starts[k]
                end_pos == Min(i + chunker.window_size, Len(cleaned))
            IN  TextChunk(ChunkId(fid, k - 1), k - 1,
                          PySlice(cleaned, i, end_pos), i, end_pos, 0)]

\* chunk_text_simple, lines 188-226; the for loop runs over a finite range,
\* so the call is one step
ChunkTextSimple(t, fid) ==
    /\ pc = "ready"
    /\ text' = t
    /\ file_id' = fid
    /\ pc' = "done_simple"
    /\ IF NoText(t)
       THEN /\ result' = <<>>
            /\ UNCHANGED cleaned_text
       ELSE LET cleaned == _clean_text(t)
            IN  /\ cleaned_text' = cleaned
                /\ result' =
                     IF Len(cleaned) <= chunker.window_size
                     THEN <<TextChunk(ChunkId(fid, 0), 0, cleaned, 0,
                                      Len(cleaned), 1)>>
                     ELSE UpdateTotalChunks(SimpleChunks(cleaned, fid))
    /\ UNCHANGED <<args, chunker, error, chunks, start_pos, chunk_index,
                   iter_log>>

---------------------------------------------------------------------------
(* Inputs *)

\* 'a', ' ', '.', '\n', NUL
SmallAlphabet == {97, SPACE, 46, 10, 0}
SmallTexts == UNION {[1..n -> SmallAlphabet] : n \in 0..MaxLen}

\* a long run of letters with two marks; the positions lie on both sides of
\* the two lookback windows of a chunk of 120 characters
MarkPositions == {10, 20, 21, 70, 71, 120, 121}
MarkChars == {46, 33, 63, SPACE}
LongTexts ==
    {[i \in 1..LongLen |-> IF i = p2 THEN c2 ELSE IF i = p1 THEN c1 ELSE 97] :
        <<p1, p2, c1, c2>> \in
            MarkPositions \X MarkPositions \X MarkChars \X MarkChars}

SmallSizes == -1..3
LargeConfigs == {<<120, 0>>, <<120, 30>>}
Configs == (SmallSizes \X SmallSizes) \cup LargeConfigs

FileIds == {"f1", "doc_2"}

\* short texts for the small windows, long ones for the window of 120
TextsFor(w) ==
    IF w <= MaxLen THEN {None} \cup {Str(s) : s \in SmallTexts}
    ELSE {Str(s) : s \in LongTexts}

\* the texts a call on the constructed chunker is given
Texts == IF pc = "ready" THEN TextsFor(chunker.window_size) ELSE {}

Init ==
    /\ pc = "new"
    /\ \E c \in Configs : args = [window_size |-> c[1], overlap |-> c[2]]
    /\ chunker = NoChunker
    /\ error = ""
    /\ text = None
    /\ file_id = ""
    /\ cleaned_text = <<>>
    /\ chunks = <<>>
    /\ start_pos = 0
    /\ chunk_index = 0
    /\ iter_log = <<>>
    /\ result = <<>>
    /\ ParseIdle
    /\ RunnerIdle
    /\ JobIdle
    /\ StageIdle
    /\ StorageIdle

Next ==
    \/ Construct /\ UNCHANGED <<parseVars, runnerVars, jobVars, stageVars, storageVars>>
    \/ \E t \in Texts, fid \in FileIds :
           ChunkTextBegin(t, fid) /\ UNCHANGED <<parseVars, runnerVars, jobVars, stageVars, storageVars>>
    \/ ChunkTextLoop /\ UNCHANGED <<parseVars, runnerVars, jobVars, stageVars, storageVars>>
    \/ ChunkTextReturn /\ UNCHANGED <<parseVars, runnerVars, jobVars, stageVars, storageVars>>
    \/ \E t \in Texts : CleanTextCall(t) /\ UNCHANGED <<parseVars, runnerVars, jobVars, stageVars, storageVars>>
    \/ \E t \in Texts, fid \in FileIds :
           ChunkTextSimple(t, fid) /\ UNCHANGED <<parseVars, runnerVars, jobVars, stageVars, storageVars>>

Spec == Init /\ [][Next]_vars

---------------------------------------------------------------------------
(* The parse stage: data *)

\* Python truthiness of a value that is None or a str
Truthy(x) == x # None /\ x.s # <<>>

\* a <= b for two str values: the comparison by code points, the shorter
\* string first when it is a prefix of the other
StrLe(a, b) ==
    LET n == Min(Len(a), Len(b))
        diff == {i \in 1..n : a[i] # b[i]}
    IN  IF diff = {} THEN Len(a) <= Len(b)
        ELSE a[SetMin(diff)] < b[SetMin(diff)]

\* an int value of a field that may also be None
IntVal(n) == [none |-> FALSE, n |-> n]

\* DriveClient.is_pdf_file
is_pdf_file(mime_type) ==
    \/ mime_type = "application/pdf"
    \/ mime_type \in {"application/vnd.google-apps.document"}

\* storage_path = f"parsed/{file_id}.txt"
StoragePath(fid) == "parsed/" \o fid \o ".txt"

\* StorageAdapter.load: the content, or None when there is none at the path
load(st, path) == IF path \in DOMAIN st THEN st[path] ELSE None

\* the storage after a save of the content at the path
Saved(st, path, content) ==
    [p \in DOMAIN st \cup {path} |-> IF p = path THEN content ELSE st[p]]

\* last_processed_time_state.value(): None until the key was updated
StateValue(idx, fid) == IF fid \in DOMAIN idx THEN idx[fid] ELSE None

\* last_processed_time_state.update(t) / self.processed_files[file_id] = t
StateUpdate(idx, fid, t) ==
    [k \in DOMAIN idx \cup {fid} |-> IF k = fid THEN t ELSE idx[k]]

\* the record written to the parsed-files topic
ParsedFileMsg(value, path, len, status, err) ==
    [id |-> value.id, name |-> value.name, mimeType |-> value.mimeType,
     modifiedTime |-> value.modifiedTime, storagePath |-> path,
     textLength |-> len, parseStatus |-> status, errorMessage |-> err]

\* what one call of the stage did: the records it emitted, the storage and
\* the index it left, how often it downloaded and how often it called save,
\* the status the extraction returned and what the call of save did
Done(kind, emitted, idx, st, fetches, saves, extracted, save_result) ==
    [kind |-> kind, emitted |-> emitted, index |-> idx, store |-> st,
     fetches |-> fetches, saves |-> saves, extracted |-> extracted,
     save_result |-> save_result]

\* a slip: save reports success and writes nothing
AfterSave_nowrite(st, path, content, save) == st

\* the storage after a call of save with the given outcome: "ok", "raise"
\* (nothing written) or "raise_written" (the content was written and the
\* metadata file failed)
AfterSave(st, path, content, save) ==
    IF save = "raise" THEN st ELSE Saved(st, path, content)

\* a str value of the field errorMessage, which may also be None
Msg(m) == [none |-> FALSE, m |-> m]

\* what the collaborators of one call do: whether the download or the
\* extraction raises, the (text, status) the extraction returns, what the
\* call of save does, whether the serializer accepts the record, and the
\* message of the exception raised, if any
Outcome(raises, status, txt, save, ser_ok) ==
    [raises |-> raises, status |-> status, text |-> txt, save |-> save,
     ser_ok |-> ser_ok, msg |-> "I/O error"]

---------------------------------------------------------------------------
(* The parse stage of the Flink job *)

\* lines 150-155: the message of a status other than success
StatusMessage(status) ==
    IF status = "failed" THEN Msg("PDF parsing failed")
    ELSE IF status = "empty" THEN Msg("PDF contains no extractable text")
    ELSE IF status = "download_failed"
         THEN Msg("Failed to download PDF from Google Drive")
    ELSE None

\* a slip: < for <=, a record with the modifiedTime processed last is
\* processed again
IsDuplicate_lt(last_processed_time, modified_time) ==
    /\ Truthy(last_processed_time)
    /\ Truthy(modified_time)
    /\ modified_time # last_processed_time
    /\ StrLe(modified_time.s, last_processed_time.s)

\* lines 104-109: the record is not newer than the one processed last
IsDuplicate(last_processed_time, modified_time) ==
    /\ Truthy(last_processed_time)
    /\ Truthy(modified_time)
    /\ StrLe(modified_time.s, last_processed_time.s)

\* lines 157-159: the state after the record was handled
UpdatedState(idx, fid, modified_time) ==
    IF Truthy(modified_time) THEN StateUpdate(idx, fid, modified_time)
    ELSE idx

\* DriveFileParserFunction.process_element, lines 80-177, on the record
\* value with the keyed state idx and the storage st
process_element(value, o, idx, st) ==
    LET fid == value.id
        modified_time == value.modifiedTime
        storage_path == StoragePath(fid)
    IN  IF ~is_pdf_file(value.mimeType)
        THEN Done("not_pdf", <<>>, idx, st, 0, 0, "not_called", "not_called")
        ELSE IF IsDuplicate(StateValue(idx, fid), modified_time)
        THEN Done("skip", <<>>, idx, st, 0, 0, "not_called", "not_called")
        ELSE IF o.raises
        THEN \* lines 164-177
             Done("error",
                  <<ParsedFileMsg(value, "", None, "failed", Msg(o.msg))>>,
                  idx, st, 1, 0, "raised", "not_called")
        ELSE LET saving == o.status = "success" /\ Truthy(o.text)
                 save_failed == saving /\ o.save # "ok"
                 len == IF Truthy(o.text) THEN IntVal(Len(o.text.s)) ELSE None
                 status == IF save_failed THEN "failed" ELSE o.status
                 err == IF saving
                        THEN IF save_failed
                             THEN Msg("Failed to save to storage: " \o o.msg)
                             ELSE None
                        ELSE StatusMessage(o.status)
             IN  Done("processed",
                      <<ParsedFileMsg(value, storage_path, len, status, err)>>,
                      UpdatedState(idx, fid, modified_time),
                      IF saving
                      THEN AfterSave(st, storage_path, o.text, o.save)
                      ELSE st,
                      1,
                      IF saving THEN 1 ELSE 0,
                      o.status,
                      IF saving THEN o.save ELSE "not_called")

---------------------------------------------------------------------------
(* The parse stage of the demo *)

\* lines 206-210: the comparison of line 208 raises TypeError when the
\* dict holds None for the file, and the handler of line 281 goes on to
\* the next message
DemoCompareRaises(idx, fid, modified_time) ==
    fid \in DOMAIN idx /\ Truthy(modified_time) /\ idx[fid] = None

DemoIsDuplicate(idx, fid, modified_time) ==
    /\ fid \in DOMAIN idx
    /\ Truthy(modified_time)
    /\ StrLe(modified_time.s, idx[fid].s)

\* the body of the while loop of PipelineDemo.run_parser_demo for one
\* message, lines 187-284, with the dict idx and the storage st
run_parser_demo(drive_file, o, idx, st) ==
    LET fid == drive_file.id
        modified_time == drive_file.modifiedTime
        storage_path == StoragePath(fid)
    IN  IF ~is_pdf_file(drive_file.mimeType)
        THEN Done("not_pdf", <<>>, idx, st, 0, 0, "not_called", "not_called")
        ELSE IF DemoCompareRaises(idx, fid, modified_time)
        THEN Done("error", <<>>, idx, st, 0, 0, "not_called", "not_called")
        ELSE IF DemoIsDuplicate(idx, fid, modified_time)
        THEN Done("skip", <<>>, idx, st, 0, 0, "not_called", "not_called")
        ELSE IF o.raises
        THEN \* lines 231-233
             Done("dropped", <<>>, idx, st, 1, 0, "raised", "not_called")
        ELSE IF o.status = "failed" \/ o.status = "empty"
        THEN \* lines 225-230
             Done("dropped", <<>>, idx, st, 1, 0, o.status, "not_called")
        ELSE IF o.save # "ok"
        THEN \* lines 243-245
             Done("dropped", <<>>, idx,
                  AfterSave(st, storage_path, o.text, o.save),
                  1, 1, o.status, o.save)
        ELSE IF ~o.ser_ok
        THEN \* lines 264-267
             Done("dropped", <<>>, idx,
                  Saved(st, storage_path, o.text), 1, 1, o.status, o.save)
        ELSE Done("processed",
                  <<ParsedFileMsg(drive_file, storage_path,
                                  IntVal(Len(o.text.s)), o.status, None)>>,
                  StateUpdate(idx, fid, modified_time),
                  Saved(st, storage_path, o.text), 1, 1, o.status, o.save)

---------------------------------------------------------------------------
(* The parse stage: inputs, actions and specification *)

\* the texts an extraction returns: never blank (pdf_parser.py, lines
\* 48-56)
ParsedTexts == {<<97, SPACE, 98, 46>>}

\* modifiedTime values "1" < "10", and a record without the field
Times == {None, Str(<<49>>), Str(<<49, 48>>)}

MimeTypes == {"application/pdf", "text/plain"}

FileRefs ==
    {[id |-> i, name |-> "n", mimeType |-> m, modifiedTime |-> t] :
        i \in FileIds, m \in MimeTypes, t \in Times}

SaveResults == {"ok", "raise", "raise_written"}

\* PDFParser.parse_pdf_from_drive(service, file_id): it downloads the file
\* and extracts its text; it returns (text, status), the text None unless
\* the status is success, or raises
parse_pdf_from_drive ==
    {Outcome(TRUE, "", None, "ok", TRUE)}
    \cup {Outcome(FALSE, s, None, "ok", TRUE) :
            s \in {"failed", "empty", "download_failed"}}
    \cup {Outcome(FALSE, "success", Str(t), sv, TRUE) :
            t \in ParsedTexts, sv \in SaveResults}

\* DriveClient.get_file_bytes, which may raise, followed by
\* PDFParser.parse_pdf_from_bytes, which returns (text, "success") with a
\* text that is not blank, (None, "empty") or (None, "failed")
parse_pdf_from_bytes ==
    {Outcome(TRUE, "", None, "ok", TRUE)}
    \cup {Outcome(FALSE, s, None, "ok", TRUE) : s \in {"failed", "empty"}}
    \cup {Outcome(FALSE, "success", Str(t), sv, TRUE) :
            t \in ParsedTexts, sv \in SaveResults}
    \cup {Outcome(FALSE, "success", Str(t), "ok", FALSE) : t \in ParsedTexts}

\* the history of a call whose result is r
Record(value, r) ==
    /\ index' = r.index
    /\ store' = r.store
    /\ seen' = IF r.kind = "not_pdf" THEN seen
               ELSE seen \cup {<<value.id, value.modifiedTime>>}
    /\ call' = [made |-> TRUE, ref |-> value, kind |-> r.kind,
                emitted |-> r.emitted, fetches |-> r.fetches,
                saves |-> r.saves, extracted |-> r.extracted,
                save_result |-> r.save_result,
                index_before |-> index, store_before |-> store,
                redelivery |-> <<value.id, value.modifiedTime>> \in seen]
    /\ UNCHANGED <<impl, chunkerVars>>

\* the Flink function is given one record
ProcessElement(value, o) ==
    /\ impl = "flink"
    /\ Record(value, process_element(value, o, index, store))

\* the demo loop is given one message
RunParserDemo(drive_file, o) ==
    /\ impl = "demo"
    /\ Record(drive_file, run_parser_demo(drive_file, o, index, store))

\* the text chunker is not used
ChunkerIdle ==
    /\ pc = "new"
    /\ args = [window_size |-> 3, overlap |-> 1]
    /\ chunker = NoChunker
    /\ error = ""
    /\ text = None
    /\ file_id = ""
    /\ cleaned_text = <<>>
    /\ chunks = <<>>
    /\ start_pos = 0
    /\ chunk_index = 0
    /\ iter_log = <<>>
    /\ result = <<>>

ParseInit ==
    /\ ChunkerIdle
    /\ impl \in {"flink", "demo"}
    /\ index = <<>>
    /\ store = <<>>
    /\ seen = {}
    /\ call = NoCall
    /\ RunnerIdle
    /\ JobIdle
    /\ StageIdle
    /\ StorageIdle

ParseNext ==
    \/ \E value \in FileRefs, o \in parse_pdf_from_drive :
           ProcessElement(value, o) /\ UNCHANGED <<runnerVars, jobVars, stageVars, storageVars>>
    \/ \E drive_file \in FileRefs, o \in parse_pdf_from_bytes :
           RunParserDemo(drive_file, o) /\ UNCHANGED <<runnerVars, jobVars, stageVars, storageVars>>

ParseSpec == ParseInit /\ [][ParseNext]_vars

---------------------------------------------------------------------------
(* The chunk stage: FileChunkerFunction.flat_map of the Flink job          *)
(* (src/src/universal_search/flink_jobs/chunker_job.py) and the loop of    *)
(* PipelineDemo.run_chunker_demo (src/demo_pipeline.py).  The call of      *)
(* chunk_text is made of the steps of the text chunker above.              *)

\* a slip: only the status failed is skipped
NotSuccess_failed(parse_status) == parse_status = "failed"

\* if parse_status != 'success'
NotSuccess(parse_status) == parse_status # "success"

\* the record written to the chunks topic
ChunkMsg(chunk, value, stamp) ==
    [fileId |-> value.id, fileName |-> value.name,
     chunkId |-> chunk.chunk_id, chunkIndex |-> chunk.chunk_index,
     chunkText |-> chunk.text, startPosition |-> chunk.start_position,
     endPosition |-> chunk.end_position, chunkTimestamp |-> stamp,
     totalChunks |-> chunk.total_chunks]

\* a call of the stage is under way: chunk_text is running
Running == call.made /\ call.running

\* the history of a call of the chunk stage
ChunkCall(value, running, loads, emitted) ==
    [made |-> TRUE, input |-> value, running |-> running, loads |-> loads,
     emitted |-> emitted]

\* the call returns without a chunk, after the given number of loads
NoChunks(value, loads) ==
    /\ call' = ChunkCall(value, FALSE, loads, <<>>)
    /\ UNCHANGED chunkerVars

\* the call of chunk_text is over: its locals and its result are gone, the
\* chunker is ready for the next call
Forgotten ==
    /\ pc' = "ready"
    /\ text' = None
    /\ file_id' = ""
    /\ cleaned_text' = <<>>
    /\ chunks' = <<>>
    /\ start_pos' = 0
    /\ chunk_index' = 0
    /\ iter_log' = <<>>
    /\ result' = <<>>
    /\ UNCHANGED <<args, chunker, error>>

\* the tests that both implementations make before they chunk the text,
\* and the call of chunk_text
BeginChunking(value) ==
    /\ pc = "ready"
    /\ ~Running
    /\ IF NotSuccess(value.parseStatus)
       THEN NoChunks(value, 0)
       ELSE IF value.storagePath = ""
       THEN NoChunks(value, 0)
       ELSE LET parsed_text == load(store, value.storagePath)
            IN  IF ~Truthy(parsed_text)
                THEN NoChunks(value, 1)
                ELSE /\ ChunkTextBegin(parsed_text, value.id)
                     /\ call' = ChunkCall(value, TRUE, 1, <<>>)
    /\ UNCHANGED <<impl, index, store, seen>>

\* flat_map, lines 74-100
FlatMapBegin(value) ==
    /\ impl = "flink"
    /\ BeginChunking(value)

\* flat_map, lines 102-125: chunk_text has returned; every message carries
\* the chunk_timestamp of line 107
FlatMapYield(stamp) ==
    /\ impl = "flink"
    /\ Running
    /\ pc = "done"
    /\ call' = [call EXCEPT
                  !.running = FALSE,
                  !.emitted = [k \in 1..Len(result) |->
                                  ChunkMsg(result[k], call.input, stamp)]]
    /\ Forgotten
    /\ UNCHANGED <<impl, index, store, seen>>

\* run_chunker_demo, lines 327-355, for one message
RunChunkerDemoBegin(parsed_file) ==
    /\ impl = "demo"
    /\ BeginChunking(parsed_file)

\* run_chunker_demo, lines 357-380: chunk_text has returned; each message
\* carries the time of its own call of utcnow (line 368)
RunChunkerDemoProduce(stamps) ==
    /\ impl = "demo"
    /\ Running
    /\ pc = "done"
    /\ Len(stamps) = Len(result)
    /\ call' = [call EXCEPT
                  !.running = FALSE,
                  !.emitted = [k \in 1..Len(result) |->
                                  ChunkMsg(result[k], call.input, stamps[k])]]
    /\ Forgotten
    /\ UNCHANGED <<impl, index, store, seen>>

\* the records of the parsed-files topic
ParsedFiles ==
    UNION {{[id |-> i, name |-> "n", storagePath |-> p, parseStatus |-> s] :
               p \in {"", StoragePath(i)},
               s \in {"success", "failed", "empty", "download_failed"}} :
           i \in FileIds}

\* what the storage holds at a path: nothing, an empty file, a blank text,
\* "a." (one chunk) or "ab cd" (several chunks)
StoredContents ==
    {None, Str(<<>>), Str(<<SPACE>>), Str(<<97, 46>>),
     Str(<<97, 98, SPACE, 99, 100>>)}

Stores ==
    UNION {[S -> StoredContents \ {None}] :
              S \in SUBSET {StoragePath(i) : i \in FileIds}}

\* the readings of the clock
Stamps == 1..2

\* the readings of the clock of n successive calls of utcnow
StampSeqs(n) ==
    {s \in [1..n -> Stamps] : \A k \in 1..(n - 1) : s[k] <= s[k + 1]}

ChunkInit ==
    /\ ChunkerIdle
    /\ impl \in {"flink", "demo"}
    /\ index = <<>>
    /\ store \in Stores
    /\ seen = {}
    /\ call = NoCall
    /\ RunnerIdle
    /\ JobIdle
    /\ StageIdle
    /\ StorageIdle

ChunkNext ==
    \/ Construct /\ UNCHANGED <<parseVars, runnerVars, jobVars, stageVars, storageVars>>
    \/ \E value \in ParsedFiles :
           FlatMapBegin(value) /\ UNCHANGED <<runnerVars, jobVars, stageVars, storageVars>>
    \/ \E parsed_file \in ParsedFiles :
           RunChunkerDemoBegin(parsed_file) /\ UNCHANGED <<runnerVars, jobVars, stageVars, storageVars>>
    \/ ChunkTextLoop /\ UNCHANGED <<parseVars, runnerVars, jobVars, stageVars, storageVars>>
    \/ ChunkTextReturn /\ UNCHANGED <<parseVars, runnerVars, jobVars, stageVars, storageVars>>
    \/ \E stamp \in Stamps :
           FlatMapYield(stamp) /\ UNCHANGED <<runnerVars, jobVars, stageVars, storageVars>>
    \/ \E stamps \in StampSeqs(Len(result)) :
           RunChunkerDemoProduce(stamps) /\ UNCHANGED <<runnerVars, jobVars, stageVars, storageVars>>

ChunkSpec == ChunkInit /\ [][ChunkNext]_vars

---------------------------------------------------------------------------
(* Properties of the text chunker *)

IsBlank(t) == t = None \/ \A i \in 1..Len(t.s) : t.s[i] \in WhitespaceChars
CharAt(p) == cleaned_text[p + 1]     \* cleaned_text[p], 0-based
Returned == pc = "done"
ValidConfig(w, o) == w > 0 /\ o >= 0 /\ o < w

\* C1: chunk_text terminates for every valid configuration and every text:
\* every iteration of the while loop moves start_pos strictly forward (an
\* iteration that leaves start_pos where it was repeats for ever, since
\* nothing else it reads changes).
C1_LoopAdvances == [][ChunkTextLoop => start_pos' > start_pos]_vars

\* C2: construction fails exactly when window_size <= 0, overlap < 0 or
\* overlap >= window_size; otherwise it succeeds and stores both values
\* unchanged.
C2_ConstructionValidates ==
    pc # "new" =>
        /\ (error # "") <=> ~ValidConfig(args.window_size, args.overlap)
        /\ (error # "") <=> ~chunker.constructed
        /\ chunker.constructed =>
               /\ chunker.window_size = args.window_size
               /\ chunker.overlap = args.overlap

C2_Witness ==
    /\ pc = "init_error"
    /\ args.window_size > 0
    /\ args.overlap = args.window_size

\* C3: chunk_text returns the empty list when the text is missing, empty or
\* only whitespace.
C3_BlankGivesNoChunk == (Returned /\ IsBlank(text)) => result = <<>>

C3_Witness ==
    /\ Returned
    /\ text # None
    /\ Len(text.s) >= 2
    /\ IsBlank(text)
    /\ result = <<>>

\* C4: a non-blank text whose cleaned form is not longer than window_size
\* gives exactly one chunk: index 0, positions 0 and len(cleaned), total 1,
\* text the whole cleaned text.
C4_SingleChunk ==
    (Returned /\ ~IsBlank(text)
        /\ Len(_clean_text(text)) <= chunker.window_size) =>
        /\ Len(result) = 1
        /\ result[1].chunk_index = 0
        /\ result[1].start_position = 0
        /\ result[1].end_position = Len(_clean_text(text))
        /\ result[1].total_chunks = 1
        /\ result[1].text = _clean_text(text)

C4_Witness ==
    /\ Returned
    /\ ~IsBlank(text)
    /\ Len(result) = 1
    /\ Len(cleaned_text) = chunker.window_size
    /\ Len(cleaned_text) < Len(text.s)
    /\ chunker.overlap > 0

\* C5: the last chunk of a non-empty result ends at the length of the
\* cleaned text.
C5_LastChunkEndsAtLength ==
    (Returned /\ result # <<>>) =>
        result[Len(result)].end_position = Len(_clean_text(text))

C5_Witness ==
    /\ Returned
    /\ Len(result) >= 3
    /\ \E k \in 1..Len(iter_log) :
           /\ iter_log[k].adjusted
           /\ result[k].end_position < iter_log[k].tentative_end
    /\ result[Len(result)].end_position = Len(cleaned_text)

\* C6 as stated: a chunk after the first starts before the end of its
\* predecessor unless the forced-advance guard fired after the predecessor.
C6_OverlapUnlessForced ==
    Returned =>
        \A i \in 2..Len(result) :
            ~iter_log[i - 1].forced =>
                result[i].start_position < result[i - 1].end_position

\* C6, amended: unless the guard fired, a chunk after the first starts
\* overlap characters before the end of its predecessor: before that end
\* when overlap > 0, at that end when overlap = 0.
C6_StartIsEndMinusOverlap ==
    Returned =>
        \A i \in 2..Len(result) :
            ~iter_log[i - 1].forced =>
                /\ result[i].start_position =
                       result[i - 1].end_position - chunker.overlap
                /\ chunker.overlap > 0 =>
                       result[i].start_position < result[i - 1].end_position
                /\ chunker.overlap = 0 =>
                       result[i].start_position = result[i - 1].end_position

C6_Witness ==
    /\ Returned
    /\ chunker.overlap > 0
    /\ \E i \in 2..Len(result) :
           /\ ~iter_log[i - 1].forced
           /\ result[i].start_position < result[i - 1].end_position
    /\ \E i \in 2..Len(result) : iter_log[i - 1].forced

\* C7: the k-th chunk of a result (0-based) has chunk_index k and chunk_id
\* file_id + "_chunk_" + k, and every total_chunks is the length of the
\* result.
C7_Numbering ==
    Returned =>
        \A k \in 1..Len(result) :
            /\ result[k].chunk_index = k - 1
            /\ result[k].chunk_id = file_id \o "_chunk_" \o ToString(k - 1)
            /\ result[k].total_chunks = Len(result)

C7_Witness ==
    /\ Returned
    /\ Len(result) >= 3
    /\ result[3].chunk_id = "doc_2_chunk_2"
    /\ result[3].total_chunks = Len(result)

\* the positions (0-based, in the cleaned text) of the characters of cs in
\* the last n characters of the tentative chunk [s, t)
InTail(s, t, n, cs) == {p \in Max(s, t - n)..(t - 1) : CharAt(p) \in cs}
IsLast(p, S) == p \in S /\ \A q \in S : q <= p

\* C8: a non-final chunk ends just after the last of '.', '!', '?' in the
\* last 100 characters of the tentative chunk; if there is none, at the last
\* space in its last 50 characters; if there is none either, at the
\* tentative end.  A sentence end wins over a space nearer to the end.
C8_BoundaryAdjustment ==
    \A k \in 1..Len(chunks) :
        iter_log[k].adjusted =>
            LET s == chunks[k].start_position
                t == iter_log[k].tentative_end
                e == chunks[k].end_position
                sentence == InTail(s, t, 100, {46, 33, 63})
                space == InTail(s, t, 50, {32})
            IN  /\ t = s + chunker.window_size
                /\ sentence # {} => IsLast(e - 1, sentence)
                /\ (sentence = {} /\ space # {}) => IsLast(e, space)
                /\ (sentence = {} /\ space = {}) => e = t

C8_Witness ==
    \E k \in 1..Len(chunks) :
        LET s == chunks[k].start_position
            t == iter_log[k].tentative_end
            e == chunks[k].end_position
        IN  /\ iter_log[k].adjusted
            /\ t - s > 100
            /\ e < t - 50
            /\ CharAt(e - 1) \in {46, 33, 63}
            /\ \E p \in e..(t - 1) : CharAt(p) = 32

\* C9: the text of every chunk is the slice [start_position, end_position)
\* of the cleaned text, and 0 <= start_position <= end_position <=
\* len(cleaned), also when a boundary break shortened the chunk.
IsSliceOfCleaned(c) ==
    /\ 0 <= c.start_position
    /\ c.start_position <= c.end_position
    /\ c.end_position <= Len(cleaned_text)
    /\ Len(c.text) = c.end_position - c.start_position
    /\ \A j \in 1..Len(c.text) : c.text[j] = CharAt(c.start_position + j - 1)

C9_ChunkIsSlice ==
    /\ \A k \in 1..Len(chunks) : IsSliceOfCleaned(chunks[k])
    /\ Returned => \A k \in 1..Len(result) : IsSliceOfCleaned(result[k])

C9_Witness ==
    /\ Returned
    /\ Len(result) = Len(iter_log)
    /\ \E k \in 1..Len(iter_log) :
           /\ iter_log[k].adjusted
           /\ result[k].end_position < iter_log[k].tentative_end
           /\ result[k].end_position > result[k].start_position
           /\ IsSliceOfCleaned(result[k])

\* C10: the text _clean_text returns has no two whitespace characters in a
\* row, no whitespace at either end and no control character.
C10_CleanedIsNormalised ==
    pc = "cleaned" =>
        /\ \A i \in 1..Len(cleaned_text) :
               /\ cleaned_text[i] \notin ControlChars
               /\ cleaned_text[i] \in WhitespaceChars =>
                      /\ cleaned_text[i] = SPACE
                      /\ i > 1
                      /\ i < Len(cleaned_text)
                      /\ cleaned_text[i + 1] \notin WhitespaceChars

\* C11: in every result of chunk_text_simple with more than one chunk, each
\* chunk after the first starts exactly at the end position of the chunk
\* before it minus the overlap.
C11_SimpleStartIsEndMinusOverlap ==
    (pc = "done_simple" /\ Len(result) > 1) =>
        \A k \in 2..Len(result) :
            result[k].start_position =
                result[k - 1].end_position - chunker.overlap

---------------------------------------------------------------------------
(* Properties of the parse stage *)

\* the value the index held for the file of the last call when it began
Recorded == StateValue(call.index_before, call.ref.id)

\* the last call was given a record whose modifiedTime is <= the value
\* recorded for its file id
DedupCase ==
    /\ call.made
    /\ call.ref.modifiedTime # None
    /\ Recorded # None
    /\ StrLe(call.ref.modifiedTime.s, Recorded.s)

\* the last call was given a record of a supported type
Supported == call.made /\ is_pdf_file(call.ref.mimeType)

\* C12: a record whose modifiedTime is <= the value recorded in the index
\* for the same file id is skipped: no ParsedFile is emitted, nothing is
\* downloaded, nothing is written to the storage, the index is unchanged.
C12_DedupSkip ==
    DedupCase =>
        /\ call.emitted = <<>>
        /\ call.fetches = 0
        /\ call.saves = 0
        /\ store = call.store_before
        /\ index = call.index_before

C12_Witness ==
    /\ DedupCase
    /\ Supported
    /\ call.ref.modifiedTime # Recorded
    /\ call.kind = "skip"

\* C13: a record that enters the stage yields no ParsedFile when it is a
\* dedup skip and exactly one otherwise: a failure of the download, the
\* extraction or the save is reported as one ParsedFile with a status other
\* than success and an error message, never dropped.
C13_ZeroOrOneRecord ==
    Supported =>
        /\ DedupCase => Len(call.emitted) = 0
        /\ ~DedupCase =>
               /\ Len(call.emitted) = 1
               /\ call.extracted # "success" \/ call.save_result # "ok" =>
                      /\ call.emitted[1].parseStatus # "success"
                      /\ call.emitted[1].errorMessage # None

\* C14: every ParsedFile emitted has a non-empty storagePath only if its
\* parseStatus is success, and an errorMessage exactly if its parseStatus
\* is not success.
C14_PathAndMessageFollowStatus ==
    call.made =>
        \A k \in 1..Len(call.emitted) :
            LET m == call.emitted[k]
            IN  /\ m.storagePath # "" => m.parseStatus = "success"
                /\ m.errorMessage # None <=> m.parseStatus # "success"

\* C15: every ParsedFile emitted has textLength null unless its final
\* parseStatus is success, also when the status became failed because the
\* save failed.
C15_TextLengthOnlyOnSuccess ==
    call.made =>
        \A k \in 1..Len(call.emitted) :
            call.emitted[k].parseStatus # "success" =>
                call.emitted[k].textLength = None

\* the extraction of the last call returned a text and the call of save
\* raised
SaveFailed ==
    /\ call.made
    /\ call.extracted = "success"
    /\ call.save_result \in {"raise", "raise_written"}

\* C16: when the extraction succeeds and the save fails, one ParsedFile is
\* emitted, with parseStatus failed and an errorMessage: no success record,
\* and the record is not dropped.
C16_SaveFailureIsReported ==
    SaveFailed =>
        /\ Len(call.emitted) = 1
        /\ call.emitted[1].parseStatus = "failed"
        /\ call.emitted[1].errorMessage # None

\* C17: the stage calls save exactly once, at parsed/{id}.txt, for a record
\* whose extraction status is success, and not at all for a record that is
\* skipped or whose extraction is failed or empty; a ParsedFile with
\* parseStatus success is emitted only after its text was saved at its
\* storagePath.
C17_OneSavePerExtractedText ==
    call.made =>
        /\ call.extracted = "success" => call.saves = 1
        /\ call.extracted # "success" =>
               call.saves = 0 /\ store = call.store_before
        /\ \A p \in DOMAIN store :
               p \notin DOMAIN call.store_before
                   \/ store[p] # call.store_before[p] =>
                       p = StoragePath(call.ref.id)
        /\ \A k \in 1..Len(call.emitted) :
               LET m == call.emitted[k]
               IN  m.parseStatus = "success" =>
                       /\ call.save_result = "ok"
                       /\ m.storagePath = StoragePath(call.ref.id)
                       /\ load(store, m.storagePath) # None
                       /\ m.textLength =
                              IntVal(Len(load(store, m.storagePath).s))

C17_Witness ==
    /\ call.made
    /\ call.extracted = "success"
    /\ call.saves = 1
    /\ Len(call.emitted) = 1
    /\ call.emitted[1].parseStatus = "success"
    /\ call.store_before = <<>>
    /\ load(store, call.emitted[1].storagePath) # None

\* the last call was given a record that is not a dedup skip
Attempted == Supported /\ ~DedupCase

\* C18: the index entry of the file id becomes the modifiedTime of the
\* record for every record that is attempted, whether a success or a
\* failure record ended the call, and the index is left alone on a skip.
C18_IndexUpdatedOnEveryAttempt ==
    /\ Attempted =>
           index = StateUpdate(call.index_before, call.ref.id,
                               call.ref.modifiedTime)
    /\ DedupCase => index = call.index_before

\* C19: once a record (id, modifiedTime) was processed, the same record
\* delivered again emits no ParsedFile, downloads nothing and saves
\* nothing, whatever the first call ended in.
C19_RedeliveryIsIdempotent ==
    (call.made /\ call.redelivery) =>
        /\ call.emitted = <<>>
        /\ call.fetches = 0
        /\ call.saves = 0

---------------------------------------------------------------------------
(* Properties of the chunk stage *)

\* a call of the chunk stage has returned
ChunkCallEnded == call.made /\ ~call.running

\* C20: given a ParsedFile whose parseStatus is not success or whose
\* storagePath is empty, the chunk stage emits no chunk and reads nothing
\* from the storage; given one whose content is missing at its storagePath,
\* it reads the path, emits no chunk and returns normally.
C20_NothingToChunk ==
    ChunkCallEnded =>
        /\ (call.input.parseStatus # "success"
               \/ call.input.storagePath = "") =>
               call.emitted = <<>> /\ call.loads = 0
        /\ (call.input.parseStatus = "success"
               /\ call.input.storagePath # ""
               /\ load(store, call.input.storagePath) = None) =>
               call.emitted = <<>> /\ call.loads = 1

C20_Witness ==
    /\ ChunkCallEnded
    /\ call.input.parseStatus = "empty"
    /\ call.input.storagePath # ""
    /\ Truthy(load(store, call.input.storagePath))
    /\ call.emitted = <<>>
    /\ call.loads = 0

\* C21: all the chunk records that the chunk stage emits for one ParsedFile
\* in one call carry the same chunkTimestamp.
C21_OneTimestampPerCall ==
    ChunkCallEnded =>
        \A j, k \in 1..Len(call.emitted) :
            call.emitted[j].chunkTimestamp = call.emitted[k].chunkTimestamp

---------------------------------------------------------------------------
(* The demo loops: PipelineDemo.run_full_pipeline, which runs              *)
(* run_parser_demo and then run_chunker_demo (src/demo_pipeline.py).  The  *)
(* body of each loop for one message is the stage above; here are the      *)
(* polls, the counters, the ways out of the loop and the cleanup.          *)

\* max_no_message_count of the two loops
ParserIdleTimeout == 30
ChunkerIdleTimeout == 10

max_no_message_count ==
    IF runner = "parser" THEN ParserIdleTimeout ELSE ChunkerIdleTimeout

\* the largest max_files, and the largest number of messages of one run
MaxFiles == 2
MaxReceived == 2

\* a slip: the counter is not reset when a message arrives
AfterMessage_keep(count) == count

\* no_message_count = 0, lines 177 and 317
AfterMessage(count) == 0

\* the history of a run that has received nothing yet: the number of
\* messages received and handled to the end, the number of polls in a row
\* that returned None, why the loop was left, and what became of the last
\* message
NoHistory ==
    [received |-> 0, empty_polls |-> 0, cause |-> "none", last |-> "none"]

\* the history after a message was received and handled with the result
\* kind
Received(kind) ==
    [hist EXCEPT !.received = @ + 1, !.empty_polls = 0, !.last = kind]

\* a slip: the records are produced last first
Produced_reversed(emitted) ==
    [k \in 1..Len(emitted) |->
        [poll |-> hist.received + 1, rec |-> emitted[Len(emitted) + 1 - k]]]

\* the records produced for the message being handled, in the order of the
\* calls of producer.produce
Produced(emitted) ==
    [k \in 1..Len(emitted) |-> [poll |-> hist.received + 1, rec |-> emitted[k]]]

\* a slip: <= for <
BelowLimit_le == files_processed <= max_files

\* while files_processed < max_files
BelowLimit == files_processed < max_files

\* the loop is at consumer.poll: the test of the while holds and no message
\* is being handled
AtPoll ==
    /\ rpc = "running"
    /\ BelowLimit
    /\ runner = "chunker" => ~Running

\* run_full_pipeline calls run_parser_demo: lines 154-164
RunFullPipeline(n) ==
    /\ runner = "none"
    /\ rpc = "idle"
    /\ runner' = "parser"
    /\ max_files' = n
    /\ rpc' = "running"
    /\ files_processed' = 0
    /\ no_message_count' = 0
    /\ bus' = [bus EXCEPT !.subscribed = TRUE]
    /\ out' = <<>>
    /\ hist' = NoHistory
    /\ UNCHANGED <<chunkerVars, parseVars>>

\* poll returns None: lines 169-174 and 309-314
PollNone ==
    /\ AtPoll
    /\ no_message_count' = no_message_count + 1
    /\ IF no_message_count + 1 >= max_no_message_count
       THEN /\ rpc' = "finally"
            /\ hist' = [hist EXCEPT !.empty_polls = @ + 1, !.cause = "idle"]
       ELSE /\ rpc' = "running"
            /\ hist' = [hist EXCEPT !.empty_polls = @ + 1]
    /\ UNCHANGED <<runner, max_files, files_processed, bus, out>>
    /\ UNCHANGED <<chunkerVars, parseVars>>

\* poll returns an error event: lines 177-185 and 317-325
PollError(eof) ==
    /\ AtPoll
    /\ no_message_count' = AfterMessage(no_message_count)
    /\ IF eof
       THEN /\ rpc' = "finally"
            /\ hist' = [hist EXCEPT !.empty_polls = 0, !.cause = "eof"]
       ELSE /\ rpc' = "running"
            /\ hist' = [hist EXCEPT !.empty_polls = 0]
    /\ UNCHANGED <<runner, max_files, files_processed, bus, out>>
    /\ UNCHANGED <<chunkerVars, parseVars>>

\* poll raises, or the user interrupts the loop while it waits in poll: the
\* exception leaves the loop through the finally block
PollRaises ==
    /\ AtPoll
    /\ rpc' = "finally"
    /\ hist' = [hist EXCEPT !.cause = "error"]
    /\ UNCHANGED <<runner, max_files, files_processed, no_message_count,
                   bus, out>>
    /\ UNCHANGED <<chunkerVars, parseVars>>

\* while files_processed < max_files: the test fails
LimitReached ==
    /\ rpc = "running"
    /\ ~BelowLimit
    /\ runner = "chunker" => ~Running
    /\ rpc' = "finally"
    /\ hist' = [hist EXCEPT !.cause = "limit"]
    /\ UNCHANGED <<runner, max_files, files_processed, no_message_count,
                   bus, out>>
    /\ UNCHANGED <<chunkerVars, parseVars>>

\* a slip: files_processed is incremented for every message
Counted_always(kind) == TRUE

\* files_processed += 1 is the last statement of the body (line 277): every
\* continue and every exception passes it by
Counted(kind) == kind = "processed"

\* run_parser_demo, lines 177-284: poll returns a message
ParserMessage(drive_file, o) ==
    /\ runner = "parser"
    /\ AtPoll
    /\ hist.received < MaxReceived
    /\ RunParserDemo(drive_file, o)
    /\ LET r == run_parser_demo(drive_file, o, index, store)
       IN  /\ files_processed' = IF Counted(r.kind)
                                 THEN files_processed + 1
                                 ELSE files_processed
           /\ out' = out \o Produced(r.emitted)
           /\ hist' = Received(r.kind)
    /\ no_message_count' = AfterMessage(no_message_count)
    /\ UNCHANGED <<runner, max_files, rpc, bus>>

\* the finally blocks, lines 286-288 and 388-390
Finally ==
    /\ rpc = "finally"
    /\ rpc' = "stopped"
    /\ bus' = IF runner = "parser"
              THEN [bus EXCEPT !.flushes = @ + 1]
              ELSE [bus EXCEPT !.closes = @ + 1, !.flushes = @ + 1]
    /\ UNCHANGED <<runner, max_files, files_processed, no_message_count,
                   out, hist>>
    /\ UNCHANGED <<chunkerVars, parseVars>>

\* run_parser_demo has returned and run_full_pipeline calls
\* run_chunker_demo: lines 403-407 and 294-304
RunChunkerDemo ==
    /\ runner = "parser"
    /\ rpc = "stopped"
    /\ hist.cause # "error"
    /\ runner' = "chunker"
    /\ rpc' = "running"
    /\ files_processed' = 0
    /\ no_message_count' = 0
    /\ out' = <<>>
    /\ hist' = NoHistory
    /\ call' = NoCall
    /\ UNCHANGED <<max_files, bus, impl, index, store, seen>>
    /\ UNCHANGED chunkerVars

\* run_chunker_demo, lines 317-355: poll returns a message
ChunkerMessage(parsed_file) ==
    /\ runner = "chunker"
    /\ AtPoll
    /\ hist.received < MaxReceived
    /\ RunChunkerDemoBegin(parsed_file)
    /\ hist' = [hist EXCEPT !.empty_polls = 0,
                            !.last = IF call'.running THEN "chunking"
                                     ELSE "skipped",
                            !.received = IF call'.running THEN @ ELSE @ + 1]
    /\ no_message_count' = AfterMessage(no_message_count)
    /\ UNCHANGED <<runner, max_files, rpc, files_processed, bus, out>>

\* run_chunker_demo, line 345: storage_adapter.load raises, and the handler
\* of line 383 goes on to the next message
ChunkerLoadRaises(parsed_file) ==
    /\ runner = "chunker"
    /\ AtPoll
    /\ hist.received < MaxReceived
    /\ ~NotSuccess(parsed_file.parseStatus)
    /\ parsed_file.storagePath # ""
    /\ call' = ChunkCall(parsed_file, FALSE, 1, <<>>)
    /\ hist' = Received("error")
    /\ no_message_count' = AfterMessage(no_message_count)
    /\ UNCHANGED <<runner, max_files, rpc, files_processed, bus, out>>
    /\ UNCHANGED <<impl, index, store, seen>>
    /\ UNCHANGED chunkerVars

\* run_chunker_demo, line 352: a step of chunk_text
ChunkerStep ==
    /\ runner = "chunker"
    /\ rpc = "running"
    /\ Running
    /\ ChunkTextLoop \/ ChunkTextReturn
    /\ UNCHANGED <<parseVars, runnerVars>>

\* run_chunker_demo, lines 357-386: the first n chunks are produced; when
\* n is less than the number of chunks the next call of produce (or of the
\* serializer) raises, and the handler of line 383 goes on to the next
\* message
ChunkerProduce(stamps, n) ==
    /\ runner = "chunker"
    /\ rpc = "running"
    /\ Running
    /\ pc = "done"
    /\ Len(stamps) = Len(result)
    /\ n \in 0..Len(result)
    /\ LET emitted == [k \in 1..n |->
                          ChunkMsg(result[k], call.input, stamps[k])]
       IN  /\ IF n = Len(result)
              THEN /\ RunChunkerDemoProduce(stamps)
                   /\ files_processed' = files_processed + 1
                   /\ hist' = Received("processed")
              ELSE /\ call' = [call EXCEPT !.running = FALSE,
                                           !.emitted = emitted]
                   /\ Forgotten
                   /\ UNCHANGED <<impl, index, store, seen>>
                   /\ files_processed' = files_processed
                   /\ hist' = Received("publish_failed")
           /\ out' = out \o Produced(emitted)
    /\ UNCHANGED <<runner, max_files, rpc, no_message_count, bus>>

\* run_chunker_demo has returned: run_full_pipeline, lines 409-413
PipelineCleanup ==
    /\ runner = "chunker"
    /\ rpc = "stopped"
    /\ hist.cause # "error"
    /\ rpc' = "done"
    /\ bus' = [bus EXCEPT !.closes = @ + 1, !.flushes = @ + 1]
    /\ UNCHANGED <<runner, max_files, files_processed, no_message_count,
                   out, hist>>
    /\ UNCHANGED <<chunkerVars, parseVars>>

\* PipelineDemo.__init__ has made the text chunker (line 42)
ChunkerReady ==
    /\ pc = "ready"
    /\ args = [window_size |-> 3, overlap |-> 1]
    /\ chunker = [constructed |-> TRUE, window_size |-> 3, overlap |-> 1]
    /\ error = ""
    /\ text = None
    /\ file_id = ""
    /\ cleaned_text = <<>>
    /\ chunks = <<>>
    /\ start_pos = 0
    /\ chunk_index = 0
    /\ iter_log = <<>>
    /\ result = <<>>

\* the messages of the drive-files topic: versions of one file
RunnerFileRefs ==
    {f \in FileRefs : f.id = "f1" /\ f.modifiedTime # Str(<<49, 48>>)}

\* the messages of the parsed-files topic
RunnerParsedFiles ==
    {f \in ParsedFiles : f.parseStatus \in {"success", "failed"}}

\* the readings of the clock of the n calls of utcnow of one message: the
\* clock does not move while the demo runs
RunnerStamps(n) == {[k \in 1..n |-> 1]}

\* what the storage holds when the demo starts: nothing, or a text from an
\* earlier run, blank or "a."
RunnerStores ==
    {<<>>} \cup {[p \in {StoragePath("doc_2")} |-> t] :
                   t \in {Str(<<SPACE>>), Str(<<97, 46>>)}}

RunnerInit ==
    /\ ChunkerReady
    /\ impl = "demo"
    /\ index = <<>>
    /\ store \in RunnerStores
    /\ seen = {}
    /\ call = NoCall
    /\ RunnerIdle
    /\ JobIdle
    /\ StageIdle
    /\ StorageIdle

RunnerNext ==
    \/ \E n \in 0..MaxFiles : RunFullPipeline(n) /\ UNCHANGED <<jobVars, stageVars, storageVars>>
    \/ PollNone /\ UNCHANGED <<jobVars, stageVars, storageVars>>
    \/ \E eof \in BOOLEAN : PollError(eof) /\ UNCHANGED <<jobVars, stageVars, storageVars>>
    \/ PollRaises /\ UNCHANGED <<jobVars, stageVars, storageVars>>
    \/ LimitReached /\ UNCHANGED <<jobVars, stageVars, storageVars>>
    \/ \E drive_file \in RunnerFileRefs, o \in parse_pdf_from_bytes :
           ParserMessage(drive_file, o) /\ UNCHANGED <<jobVars, stageVars, storageVars>>
    \/ Finally /\ UNCHANGED <<jobVars, stageVars, storageVars>>
    \/ RunChunkerDemo /\ UNCHANGED <<jobVars, stageVars, storageVars>>
    \/ \E parsed_file \in RunnerParsedFiles :
           ChunkerMessage(parsed_file) /\ UNCHANGED <<jobVars, stageVars, storageVars>>
    \/ \E parsed_file \in RunnerParsedFiles :
           ChunkerLoadRaises(parsed_file) /\ UNCHANGED <<jobVars, stageVars, storageVars>>
    \/ ChunkerStep /\ UNCHANGED <<jobVars, stageVars, storageVars>>
    \/ \E stamps \in RunnerStamps(Len(result)), n \in 0..Len(result) :
           ChunkerProduce(stamps, n) /\ UNCHANGED <<jobVars, stageVars, storageVars>>
    \/ PipelineCleanup /\ UNCHANGED <<jobVars, stageVars, storageVars>>

RunnerSpec == RunnerInit /\ [][RunnerNext]_vars

---------------------------------------------------------------------------
(* Claims about the demo loops *)

\* the chunk loop has produced for at least one message
ChunkerOut == runner = "chunker" /\ out # <<>>

\* C22: the chunk loop handles the messages in the order in which poll
\* returned them, and the chunks of one message are produced in increasing
\* chunkIndex, from 0 and without a gap, before anything is produced for the
\* next message: on the output topic the chunks of two messages are never
\* interleaved, and nothing is produced for a message that is still to be
\* polled.
C22_OutputFollowsInput ==
    runner = "chunker" =>
        /\ \A k \in 1..Len(out) :
             /\ out[k].poll <= hist.received
             /\ out[k].rec.chunkIndex =
                  Cardinality({j \in 1..(k - 1) : out[j].poll = out[k].poll})
        /\ \A j, k \in 1..Len(out) : j < k => out[j].poll <= out[k].poll

C22_Witness ==
    /\ runner = "chunker"
    /\ \E j, k \in 1..Len(out) :
         /\ out[j].poll = 1
         /\ out[j].rec.chunkIndex = 1
         /\ out[k].poll = 2
         /\ out[k].rec.fileId # out[j].rec.fileId

\* C23: a loop is left for idleness exactly when max_no_message_count polls
\* in a row returned None, 30 in the parse loop and 10 in the chunk loop:
\* while the loop runs its counter is the number of polls in a row that
\* returned None (a message sets it back to zero) and is below the
\* timeout, and the loop was stopped for idleness if and only if that number
\* reached the timeout.
C23_IdleStop ==
    runner # "none" =>
        /\ hist.empty_polls <= max_no_message_count
        /\ hist.cause = "idle" <=> hist.empty_polls = max_no_message_count
        /\ rpc = "running" =>
             /\ no_message_count = hist.empty_polls
             /\ hist.cause = "none"

C23_Witness ==
    /\ runner = "chunker"
    /\ rpc = "stopped"
    /\ hist.cause = "idle"
    /\ hist.received >= 1
    /\ no_message_count = ChunkerIdleTimeout

\* C24 as stated: a run never hands more than max_files received messages
\* to the body of the loop.
C24_DispatchedAtMostLimit == runner # "none" => hist.received <= max_files

\* C24: a loop is left for the limit once max_files messages have been
\* processed to the end (a file published by the parse loop, a file chunked
\* by the chunk loop); it never polls after that, so the number of messages
\* processed to the end never exceeds max_files.  Messages that are skipped
\* or that fail are not counted.
C24_ProcessedAtMostLimit ==
    runner # "none" =>
        /\ files_processed <= max_files
        /\ files_processed <= hist.received
        /\ runner = "parser" => files_processed = Len(out)
        /\ (runner = "chunker" /\ Running) => files_processed < max_files
        /\ (rpc # "running" /\ files_processed = max_files) =>
              hist.cause = "limit"
        /\ hist.cause = "limit" => files_processed = max_files

C24_Witness ==
    /\ runner = "parser"
    /\ rpc = "stopped"
    /\ hist.cause = "limit"
    /\ max_files = 1
    /\ files_processed = 1
    /\ hist.received = 2

\* C25: whatever the cause for which a loop was left (limit, idleness, end of
\* partition, an error that escapes or an interrupt), when the loop is
\* stopped the producer was flushed and the consumer was closed.
C25_CleanupBeforeStopped ==
    rpc \in {"stopped", "done"} => bus.flushes >= 1 /\ bus.closes >= 1

\* the handling of the last message raised an exception: in the parse loop
\* the comparison of the times, the download, the extraction, the save or
\* the serializer; in the chunk loop the load, or produce after some chunks
ParserRaised ==
    /\ runner = "parser"
    /\ call.made
    /\ \/ call.kind = "error"
       \/ call.kind = "dropped" /\ call.extracted \notin {"failed", "empty"}

ChunkerRaised ==
    /\ runner = "chunker"
    /\ hist.last \in {"error", "publish_failed"}

\* C27: when the handling of one received message raises, the loop goes on:
\* it stays in the loop, files_processed and the dedup index keep their
\* values, and nothing is produced for the message (except the chunks that
\* were produced before a later produce of the same message raised).
C27_FailedRecordIsSkipped ==
    [][(hist'.received = hist.received + 1 /\ (ParserRaised' \/ ChunkerRaised'))
          => /\ rpc' = "running"
             /\ files_processed' = files_processed
             /\ index' = index
             /\ hist'.last # "publish_failed" => out' = out]_vars

C27_Witness ==
    /\ ParserRaised
    /\ rpc = "running"
    /\ hist.received = 2
    /\ files_processed = 1
    /\ call.index_before # <<>>
    /\ call.save_result = "raise"

---------------------------------------------------------------------------
(* DriveStreamingJob (src/src/universal_search/jobs/drive_streaming_job.py) *)
(* with its signal handler, the DriveClient that lists the files and the    *)
(* DriveFileKafkaProducer that sends them.  A file source is a sequence of  *)
(* pages; page k holds source[k] files and, unless it is the last, the      *)
(* token k + 1 of the next page.                                            *)

\* the largest number of pages, the largest batch_size and
\* max_files_per_run, the largest number of signals
MaxPages == 2
MaxBatch == 2
MaxLimit == 2
MaxSignals == 1

\* page_token None: the first page
NoToken == 0

\* the drive client of the job: the DriveClient of the package, made by
\* __init__ (line 40), or a client put in its place that takes the
\* arguments of the call of line 123, as the mocks of the tests do
DriveClients == {"DriveClient", "mock"}

Sources(b) == UNION {[1..n -> 0..b] : n \in 1..MaxPages}

NoBatch == [page |-> 0]

\* DriveClient.list_files(self, page_size, page_token) called as
\* list_files(self.service, page_size=..., page_token=...): page_size gets
\* two values and the call raises TypeError.  A client that takes the call
\* returns the page of the token, or raises HttpError.
list_files(client, source, page_token) ==
    IF client = "DriveClient"
    THEN {[raises |-> TRUE, requested |-> FALSE]}
    ELSE LET k == IF page_token = NoToken THEN 1 ELSE page_token
         IN  {[raises |-> TRUE, requested |-> TRUE, page |-> k],
              [raises |-> FALSE, requested |-> TRUE, page |-> k,
               files |-> source[k],
               next_page_token |-> IF k < Len(source) THEN k + 1
                                   ELSE NoToken]}

\* a slip: the files that send_file refused are not counted
send_files_uncounted(files) ==
    {[raises |-> TRUE]}
    \cup {[raises |-> FALSE, success |-> s, failure |-> 0] : s \in 0..files}

\* DriveFileKafkaProducer.send_files(files): send_file returns True or
\* False for each file; the counts of both, or an exception of flush
send_files(files) ==
    {[raises |-> TRUE]}
    \cup {[raises |-> FALSE, success |-> s, failure |-> files - s] :
             s \in 0..files}

\* a slip: > for >=
LimitHit_gt ==
    /\ job.max_files_per_run # 0
    /\ job.total_files_processed > job.max_files_per_run

\* if self.max_files_per_run and
\*    self.total_files_processed >= self.max_files_per_run
LimitHit ==
    /\ job.max_files_per_run # 0
    /\ job.total_files_processed >= job.max_files_per_run

\* DriveStreamingJob(batch_size, max_files_per_run): lines 23-57; the
\* history starts with the file source that the client will list
NewJob(b, m, c, src) ==
    /\ ~job.created
    /\ job' = [created |-> TRUE, batch_size |-> b, max_files_per_run |-> m,
               current_page_token |-> NoToken, drive_client |-> c,
               is_running |-> FALSE, total_files_processed |-> 0,
               total_files_sent |-> 0, total_files_failed |-> 0]
    /\ jrun' = [pc |-> "idle", total_processed |-> 0, total_sent |-> 0,
                total_failed |-> 0, batch |-> NoBatch, cause |-> "none"]
    /\ jhist' = [source |-> src, requested |-> <<>>, handed |-> <<>>,
                 closes |-> 0, signals |-> 0, stopped_by_signal |-> FALSE,
                 late_requests |-> 0]

\* run, lines 215-219, and run_single_cycle, lines 170-175
Run ==
    /\ job.created
    /\ jrun.pc = "idle"
    /\ job' = [job EXCEPT !.is_running = TRUE]
    /\ jrun' = [jrun EXCEPT !.pc = "loop"]
    /\ UNCHANGED jhist

\* run_single_cycle, lines 179-182: the limit is reached
LimitBreak ==
    /\ jrun.pc = "loop"
    /\ LimitHit
    /\ jrun' = [jrun EXCEPT !.pc = "finally", !.cause = "limit"]
    /\ UNCHANGED <<job, jhist>>

\* the batch_result of process_files_batch when list_files has the outcome
\* r, and what run_single_cycle does with it
FetchedBatch(r) ==
    /\ jhist' = IF r.requested
                THEN [jhist EXCEPT
                        !.requested = Append(@,
                            [page |-> r.page,
                             total |-> job.total_files_processed]),
                        !.late_requests =
                            IF jhist.stopped_by_signal THEN @ + 1 ELSE @]
                ELSE jhist
    /\ jrun' = IF r.raises
               THEN [jrun EXCEPT !.pc = "finally", !.cause = "error"]
               ELSE IF r.files = 0
               THEN [jrun EXCEPT !.pc = "finally", !.cause = "empty"]
               ELSE [jrun EXCEPT !.pc = "sending",
                                 !.batch = [page |-> r.page,
                                            files |-> r.files,
                                            next_page_token |->
                                                r.next_page_token]]

\* run_single_cycle, line 185, and process_files_batch, lines 119-131 and
\* 159-161, then lines 187-194 when the batch is over at once
FetchBatch ==
    /\ jrun.pc = "loop"
    /\ ~LimitHit
    /\ \E r \in list_files(job.drive_client, jhist.source,
                           job.current_page_token) : FetchedBatch(r)
    /\ UNCHANGED job

\* the batch_result of process_files_batch when send_files has the outcome
\* r, and what run_single_cycle does with it
SentBatch(r) ==
    /\ jhist' = [jhist EXCEPT
                   !.handed = Append(@, [page |-> jrun.batch.page,
                                         files |-> jrun.batch.files])]
    /\ IF r.raises
       THEN /\ jrun' = [jrun EXCEPT !.pc = "finally", !.cause = "error",
                                    !.batch = NoBatch]
            /\ UNCHANGED job
       ELSE /\ job' = [job EXCEPT
                         !.total_files_processed = @ + jrun.batch.files,
                         !.total_files_sent = @ + r.success,
                         !.total_files_failed = @ + r.failure,
                         !.current_page_token = jrun.batch.next_page_token]
            /\ jrun' = [jrun EXCEPT
                          !.total_processed = @ + jrun.batch.files,
                          !.total_sent = @ + r.success,
                          !.total_failed = @ + r.failure,
                          !.batch = NoBatch,
                          !.pc = IF jrun.batch.next_page_token = NoToken
                                 THEN "finally" ELSE "loop",
                          !.cause = IF jrun.batch.next_page_token = NoToken
                                    THEN "last_page" ELSE "none"]

\* process_files_batch, lines 134-161, and run_single_cycle, lines 187-194
SendBatch ==
    /\ jrun.pc = "sending"
    /\ \E r \in send_files(jrun.batch.files) : SentBatch(r)

\* run, lines 220-221, and stop, lines 227-228: the test of is_running
StopTest ==
    /\ jrun.pc = "finally"
    /\ jrun' = [jrun EXCEPT !.pc = IF job.is_running THEN "stopping"
                                   ELSE "returned"]
    /\ UNCHANGED <<job, jhist>>

\* stop, lines 230-239
StopClose ==
    /\ jrun.pc = "stopping"
    /\ job' = [job EXCEPT !.is_running = FALSE]
    /\ jhist' = [jhist EXCEPT !.closes = @ + 1]
    /\ jrun' = [jrun EXCEPT !.pc = "returned"]

\* SIGINT or SIGTERM: signal_handler, lines 73-75, runs stop between two
\* instructions of the main thread
SignalHandler ==
    /\ job.created
    /\ jhist.signals < MaxSignals
    /\ job' = [job EXCEPT !.is_running = FALSE]
    /\ jhist' = [jhist EXCEPT
                   !.signals = @ + 1,
                   !.closes = IF job.is_running THEN @ + 1 ELSE @,
                   !.stopped_by_signal =
                       @ \/ (job.is_running
                             /\ jrun.pc \in {"loop", "sending"})]
    /\ UNCHANGED jrun

JobInit ==
    /\ ChunkerIdle
    /\ ParseIdle
    /\ RunnerIdle
    /\ JobIdle
    /\ StageIdle
    /\ StorageIdle

JobNext ==
    \/ \E b \in 1..MaxBatch, m \in 0..MaxLimit, c \in DriveClients :
         \E src \in Sources(b) :
           NewJob(b, m, c, src) /\ UNCHANGED <<chunkerVars, parseVars, runnerVars, stageVars, storageVars>>
    \/ Run /\ UNCHANGED <<chunkerVars, parseVars, runnerVars, stageVars, storageVars>>
    \/ LimitBreak /\ UNCHANGED <<chunkerVars, parseVars, runnerVars, stageVars, storageVars>>
    \/ FetchBatch /\ UNCHANGED <<chunkerVars, parseVars, runnerVars, stageVars, storageVars>>
    \/ SendBatch /\ UNCHANGED <<chunkerVars, parseVars, runnerVars, stageVars, storageVars>>
    \/ StopTest /\ UNCHANGED <<chunkerVars, parseVars, runnerVars, stageVars, storageVars>>
    \/ StopClose /\ UNCHANGED <<chunkerVars, parseVars, runnerVars, stageVars, storageVars>>
    \/ SignalHandler /\ UNCHANGED <<chunkerVars, parseVars, runnerVars, stageVars, storageVars>>

JobSpec == JobInit /\ [][JobNext]_vars

---------------------------------------------------------------------------
(* Claims about DriveStreamingJob *)

\* C26: after a stop signal that arrives during the cycle has stopped the
\* job, the batch in hand is finished and no further batch is requested
\* from the file source.
C26_NoFetchAfterStop == job.created => jhist.late_requests = 0

\* C28: when run is over, is_running is false and the producer was closed
\* exactly once, whatever ended the cycle and whether or not a signal called
\* stop during the run.
C28_ClosedOnce ==
    (job.created /\ jrun.pc = "returned") =>
        ~job.is_running /\ jhist.closes = 1

\* C29: with max_files_per_run = M > 0 no batch is requested once
\* total_files_processed >= M; a batch that was fetched is handed to the
\* producer whole and counted whole, so the total can pass M only by less
\* than the size of the last batch.
C29_LimitBetweenBatches ==
    (job.created /\ job.max_files_per_run > 0) =>
        /\ \A k \in 1..Len(jhist.requested) :
             jhist.requested[k].total < job.max_files_per_run
        /\ \A k \in 1..Len(jhist.handed) :
             jhist.handed[k].files = jhist.source[jhist.handed[k].page]
        /\ job.total_files_processed > job.max_files_per_run =>
             /\ jhist.handed # <<>>
             /\ job.total_files_processed - job.max_files_per_run
                  < jhist.handed[Len(jhist.handed)].files
        /\ jrun.cause = "limit" =>
             job.total_files_processed >= job.max_files_per_run

C29_Witness ==
    /\ job.created
    /\ jrun.pc = "returned"
    /\ jrun.cause = "limit"
    /\ job.max_files_per_run = 1
    /\ job.total_files_processed = 2
    /\ job.batch_size = 2
    /\ Len(jhist.requested) = 1
    /\ Len(jhist.source) = 2

\* the cycle of run_single_cycle is over
CycleOver == job.created /\ jrun.pc \in {"finally", "stopping", "returned"}

\* C30: a cycle over a file source of finitely many pages ends at the first
\* empty page, at the first page without a next token or at the limit; it
\* has requested the pages in the order of their tokens, each once, has
\* handed every page with files to the producer once, and its totals are
\* the sums over the batches.
C30_CycleOverSource ==
    CycleOver =>
        /\ jrun.cause \in {"empty", "last_page", "limit"}
        /\ \A k \in 1..Len(jhist.requested) : jhist.requested[k].page = k
        /\ \A k \in 1..Len(jhist.handed) : jhist.handed[k].page = k
        /\ Len(jhist.handed) =
             Cardinality({k \in 1..Len(jhist.requested) :
                             jhist.source[k] > 0})
        /\ jrun.total_processed = job.total_files_processed
        /\ jrun.total_sent + jrun.total_failed = jrun.total_processed

---------------------------------------------------------------------------
(* Further claims about the text chunker *)

\* chunk_text_simple has returned
ReturnedSimple == pc = "done_simple"

\* C31: every chunk that chunk_text or chunk_text_simple returns is at most
\* window_size characters long.
C31_ChunkFitsWindow ==
    (Returned \/ ReturnedSimple) =>
        \A k \in 1..Len(result) :
            /\ result[k].end_position - result[k].start_position
                 <= chunker.window_size
            /\ Len(result[k].text) <= chunker.window_size

C31_Witness ==
    /\ Returned
    /\ Len(result) >= 2
    /\ \E k \in 1..Len(result) :
         result[k].end_position - result[k].start_position
           = chunker.window_size
    /\ \E k \in 1..Len(result) :
         /\ iter_log[k].adjusted
         /\ result[k].end_position < iter_log[k].tentative_end

\* C32: every chunk that chunk_text returns has a text that is not empty.
C32_ChunkNotEmpty ==
    Returned =>
        \A k \in 1..Len(result) :
            /\ result[k].end_position > result[k].start_position
            /\ result[k].text # <<>>

\* C33: in every result of chunk_text the first chunk starts at 0 and each
\* later chunk starts at or before the end of its predecessor, so that every
\* position of the cleaned text lies in some chunk.
C33_NoGap ==
    (Returned /\ result # <<>>) =>
        /\ result[1].start_position = 0
        /\ \A k \in 2..Len(result) :
             result[k].start_position <= result[k - 1].end_position
        /\ \A p \in 0..(Len(_clean_text(text)) - 1) :
             \E k \in 1..Len(result) :
                 /\ result[k].start_position <= p
                 /\ p < result[k].end_position

C33_Witness ==
    /\ Returned
    /\ Len(result) >= 3
    /\ \E k \in 1..Len(iter_log) : iter_log[k].forced
    /\ \E k \in 1..Len(iter_log) :
         /\ iter_log[k].adjusted
         /\ result[k].end_position < iter_log[k].tentative_end

\* C34: in every result of chunk_text each chunk after the first ends after
\* the end of its predecessor.
C34_NoRedundantChunk ==
    Returned =>
        \A k \in 2..Len(result) :
            result[k].end_position > result[k - 1].end_position

\* C35: in every result of chunk_text the start positions and the end
\* positions do not decrease along the chunks.
C35_PositionsMonotone ==
    Returned =>
        \A k \in 2..Len(result) :
            /\ result[k].start_position >= result[k - 1].start_position
            /\ result[k].end_position >= result[k - 1].end_position

C35_Witness ==
    /\ Returned
    /\ Len(result) >= 3
    /\ \E k \in 2..Len(result) :
         /\ iter_log[k].adjusted
         /\ result[k].end_position < iter_log[k].tentative_end

---------------------------------------------------------------------------
(* Further claims about the stages *)

\* C36: once the dedup index holds a timestamp for a file id, a later record
\* leaves the entry as it is or replaces it by a greater timestamp, never by
\* an older or equal one and never by None; this in the Flink function and
\* in the demo loop, also for records without modifiedTime.
C36_IndexMonotone ==
    [][\A fid \in DOMAIN index :
          Truthy(index[fid]) =>
              /\ fid \in DOMAIN index'
              /\ \/ index'[fid] = index[fid]
                 \/ /\ Truthy(index'[fid])
                    /\ ~StrLe(index'[fid].s, index[fid].s)]_vars

---------------------------------------------------------------------------
(* The parse stage and the chunk stage on one storage *)

\* most records written to the parsed-files topic
MaxTopic == 2

\* the texts extracted from two versions of one file
StageTexts == {<<97, 46>>, <<97, SPACE, 98, 46>>}

\* the records of the drive-files topic: versions of one PDF file
StageFileRefs ==
    {f \in FileRefs : f.id = "f1" /\ f.mimeType = "application/pdf"}

\* what the download, the extraction and the save of one call do
StageOutcomes ==
    {Outcome(FALSE, "failed", None, "ok", TRUE)}
    \cup {Outcome(FALSE, "success", Str(t), sv, TRUE) :
            t \in StageTexts, sv \in SaveResults}

\* the records a call of the parse stage emitted, as they stand on the
\* topic, each with the text the call extracted
Written(o, emitted) ==
    [k \in 1..Len(emitted) |-> [rec |-> emitted[k], extracted |-> o.text]]

\* the parse stage handles one record of the drive-files topic and writes
\* what it emits to the parsed-files topic
ParseStage(value, o) ==
    /\ Len(topic) < MaxTopic
    /\ \/ ProcessElement(value, o)
       \/ RunParserDemo(value, o)
    /\ topic' = topic \o Written(o, call'.emitted)
    /\ UNCHANGED <<offset, loaded>>

\* the chunk stage reads the next record of the parsed-files topic
\* (flat_map, lines 74-93; run_chunker_demo, lines 332-350): a record that
\* is not a success or has no storage path is dropped, for any other the
\* text is loaded from the storage path and handed to chunk_text
ChunkStage ==
    /\ offset < Len(topic)
    /\ LET value == topic[offset + 1].rec
       IN  loaded' =
               IF NotSuccess(value.parseStatus) \/ value.storagePath = ""
               THEN loaded
               ELSE Append(loaded,
                           [rec |-> value,
                            extracted |-> topic[offset + 1].extracted,
                            parsed_text |-> load(store, value.storagePath)])
    /\ offset' = offset + 1
    /\ UNCHANGED <<topic, parseVars, chunkerVars>>

StageInit ==
    /\ ChunkerIdle
    /\ impl \in {"flink", "demo"}
    /\ index = <<>>
    /\ store = <<>>
    /\ seen = {}
    /\ call = NoCall
    /\ RunnerIdle
    /\ JobIdle
    /\ StageIdle
    /\ StorageIdle

StageNext ==
    \/ \E value \in StageFileRefs, o \in StageOutcomes :
           ParseStage(value, o) /\ UNCHANGED <<runnerVars, jobVars, storageVars>>
    \/ ChunkStage /\ UNCHANGED <<runnerVars, jobVars, storageVars>>

StageSpec == StageInit /\ [][StageNext]_vars

\* C37: under any interleaving of the two stages, the text the chunk stage
\* loads for a success record of the parsed-files topic is the text that
\* was extracted for that record, and its length is the record's
\* textLength; a later parse of the same file id does not change it.
C37_LoadedIsExtracted ==
    \A k \in 1..Len(loaded) :
        /\ loaded[k].parsed_text = loaded[k].extracted
        /\ Truthy(loaded[k].parsed_text)
        /\ IntVal(Len(loaded[k].parsed_text.s)) = loaded[k].rec.textLength

---------------------------------------------------------------------------
(* The demo loops under a scheduler that lets the thread run *)

\* a text longer than the window, with a full stop in the lookback of the
\* first chunk and one in the lookback of the second
LiveTexts == {[i \in 1..LongLen |-> IF i \in {21, 71} THEN 46 ELSE 97]}

\* the storage holds one of the long texts for the parsed file
RunnerLiveStores ==
    {[p \in {StoragePath("doc_2")} |-> Str(t)] : t \in LiveTexts}

\* PipelineDemo.__init__ has made the text chunker (line 42); its window
\* of 1000 exceeds the two lookbacks of _break_at_boundary and its overlap
\* of 200 is less than the window: so do the window and the overlap here
ChunkerLive ==
    /\ pc = "ready"
    /\ args = [window_size |-> 120, overlap |-> 30]
    /\ chunker = [constructed |-> TRUE, window_size |-> 120, overlap |-> 30]
    /\ error = ""
    /\ text = None
    /\ file_id = ""
    /\ cleaned_text = <<>>
    /\ chunks = <<>>
    /\ start_pos = 0
    /\ chunk_index = 0
    /\ iter_log = <<>>
    /\ result = <<>>

RunnerLiveInit ==
    /\ ChunkerLive
    /\ impl = "demo"
    /\ index = <<>>
    /\ store \in RunnerLiveStores
    /\ seen = {}
    /\ call = NoCall
    /\ RunnerIdle
    /\ JobIdle
    /\ StageIdle
    /\ StorageIdle

\* the messages of the drive-files topic: one version of one file, which
\* is a duplicate when it is delivered again
LiveFileRefs == {f \in RunnerFileRefs : f.modifiedTime # None}

\* the download or the extraction raises, or the extraction returns a text
\* and the text is saved
LiveOutcomes ==
    {o \in parse_pdf_from_bytes :
        o.save = "ok" /\ o.ser_ok /\ (o.raises \/ o.status = "success")}

\* the messages of the parsed-files topic: records of the stored file
LiveParsedFiles ==
    {f \in RunnerParsedFiles : f.id = "doc_2" /\ f.storagePath # ""}

\* the steps of RunnerNext, on these messages; producing the chunks of a
\* file raises at the first chunk or not at all
RunnerLiveNext ==
    \/ \E n \in 0..MaxFiles :
           RunFullPipeline(n) /\ UNCHANGED <<jobVars, stageVars, storageVars>>
    \/ PollNone /\ UNCHANGED <<jobVars, stageVars, storageVars>>
    \/ \E eof \in BOOLEAN :
           PollError(eof) /\ UNCHANGED <<jobVars, stageVars, storageVars>>
    \/ PollRaises /\ UNCHANGED <<jobVars, stageVars, storageVars>>
    \/ LimitReached /\ UNCHANGED <<jobVars, stageVars, storageVars>>
    \/ \E drive_file \in LiveFileRefs, o \in LiveOutcomes :
           ParserMessage(drive_file, o)
           /\ UNCHANGED <<jobVars, stageVars, storageVars>>
    \/ Finally /\ UNCHANGED <<jobVars, stageVars, storageVars>>
    \/ RunChunkerDemo /\ UNCHANGED <<jobVars, stageVars, storageVars>>
    \/ \E parsed_file \in LiveParsedFiles :
           ChunkerMessage(parsed_file)
           /\ UNCHANGED <<jobVars, stageVars, storageVars>>
    \/ \E parsed_file \in LiveParsedFiles :
           ChunkerLoadRaises(parsed_file)
           /\ UNCHANGED <<jobVars, stageVars, storageVars>>
    \/ ChunkerStep /\ UNCHANGED <<jobVars, stageVars, storageVars>>
    \/ \E stamps \in RunnerStamps(Len(result)), n \in {0, Len(result)} :
           ChunkerProduce(stamps, n)
           /\ UNCHANGED <<jobVars, stageVars, storageVars>>
    \/ PipelineCleanup /\ UNCHANGED <<jobVars, stageVars, storageVars>>

\* run_full_pipeline runs in the main thread and nothing else runs: every
\* call of poll returns within its timeout of one second (lines 167 and
\* 307) and every statement that can be executed is executed
RunnerLiveSpec ==
    RunnerLiveInit /\ [][RunnerLiveNext]_vars /\ WF_vars(RunnerLiveNext)

\* poll returns an error event
ErrorEvent == \E eof \in BOOLEAN : PollError(eof)

\* C38: a demo loop that runs eventually stops, provided that the topic
\* delivers finitely many messages and error events and that every later
\* poll returns nothing; also when every record delivered is skipped or
\* fails.
C38_LoopStops ==
    <>[][~ErrorEvent]_vars => ((rpc = "running") ~> (rpc = "stopped"))

\* the chunk loop has stopped on the idle timeout after it received a record
\* that failed and a record whose text it cut into several chunks
C38_Witness ==
    /\ runner = "chunker"
    /\ rpc = "stopped"
    /\ hist.cause = "idle"
    /\ hist.received = 2
    /\ files_processed = 1
    /\ Len(out) >= 2

---------------------------------------------------------------------------
(* Further claims about the streaming job *)

\* the three counters of the job
Counters(j) ==
    <<j.total_files_processed, j.total_files_sent, j.total_files_failed>>

\* this step is the end of a batch whose listing or sending raised
BatchRaised ==
    /\ jrun.pc \in {"loop", "sending"}
    /\ jrun'.pc = "finally"
    /\ jrun'.cause = "error"

\* C39: the processed counter of the job always equals the sent counter plus
\* the failed counter and no counter ever decreases; a batch whose listing or
\* sending raised leaves the three counters and the page token as they were
\* and adds nothing to the totals that the cycle reports.
C39_CountersAgree ==
    [][job'.created =>
          /\ job'.total_files_processed
                 = job'.total_files_sent + job'.total_files_failed
          /\ job.created =>
                 \A k \in 1..3 : Counters(job')[k] >= Counters(job)[k]
          /\ BatchRaised =>
                 /\ Counters(job') = Counters(job)
                 /\ job'.current_page_token = job.current_page_token
                 /\ jrun'.total_processed = jrun.total_processed
                 /\ jrun'.total_sent = jrun.total_sent
                 /\ jrun'.total_failed = jrun.total_failed]_vars

\* a batch was sent with one file delivered and one refused, and the
\* listing of the next batch raised
C39_Witness ==
    /\ job.created
    /\ job.total_files_sent >= 1
    /\ job.total_files_failed >= 1
    /\ jrun.pc = "finally"
    /\ jrun.cause = "error"
    /\ Len(jhist.requested) = 2

---------------------------------------------------------------------------
(* LocalStorageAdapter *)

\* storage paths, as the directory, the stem and the suffix of the file
\* name: parsed/a.txt, docs/a.txt, parsed/b.txt, metadata/a.json
StoragePaths ==
    {<<"parsed", "a", "txt">>, <<"docs", "a", "txt">>,
     <<"parsed", "b", "txt">>, <<"metadata", "a", "json">>}

\* the contents saved: "a" and "a\r"
StorageContents == {<<97>>, <<97, 13>>}

\* the metadata argument: None, the empty dict, a dict with entries (by
\* what json.dump writes between the braces)
Metadatas == {None, Str(<<>>), Str(<<107>>)}

\* self.storage_root / path, lines 96-98
_get_full_path(path) == path

\* self.storage_root / 'metadata' / f"{Path(path).stem}.json", lines 100-102
_get_metadata_path(path) == <<"metadata", path[2], "json">>

\* json.dump(metadata, f, ...), line 131
json_dump(metadata) == <<123>> \o metadata.s \o <<125>>

\* what f.read() returns for a file opened in text mode with the default
\* newline argument: "\r\n" and "\r" are translated into "\n"
RECURSIVE UniversalNewlines(_)
UniversalNewlines(s) ==
    IF s = <<>> THEN <<>>
    ELSE IF Head(s) = 13
    THEN <<10>> \o UniversalNewlines(IF Len(s) > 1 /\ s[2] = 10
                                      THEN Tail(Tail(s)) ELSE Tail(s))
    ELSE <<Head(s)>> \o UniversalNewlines(Tail(s))

\* the files after open(f, 'w') and write(c)
FileWritten(d, f, c) ==
    [g \in DOMAIN d \cup {f} |-> IF g = f THEN c ELSE d[g]]

\* the files after f.unlink()
Unlinked(d, f) == [g \in DOMAIN d \ {f} |-> d[g]]

\* LocalStorageAdapter.save, lines 104-149: the files it leaves when it
\* returns True ("ok"), raises before it wrote ("raise") or raises while
\* it writes the metadata ("raise_written")
local_save(d, path, content, metadata, outcome) ==
    IF outcome = "raise" THEN d
    ELSE LET d1 == FileWritten(d, _get_full_path(path), content)
         IN  IF ~Truthy(metadata) \/ outcome = "raise_written" THEN d1
             ELSE FileWritten(d1, _get_metadata_path(path),
                              json_dump(metadata))

\* LocalStorageAdapter.load, lines 151-169
local_load(d, path) ==
    IF _get_full_path(path) \in DOMAIN d
    THEN Str(UniversalNewlines(d[_get_full_path(path)]))
    ELSE None

\* LocalStorageAdapter.exists, lines 171-182
local_exists(d, path) == _get_full_path(path) \in DOMAIN d

\* LocalStorageAdapter.delete, lines 184-209: the files it leaves when it
\* returns True ("ok"), or False because the first unlink raised ("fail")
\* or the second ("fail_metadata")
local_delete(d, path, outcome) ==
    IF outcome = "fail" THEN d
    ELSE LET d1 == Unlinked(d, _get_full_path(path))
         IN  IF outcome = "fail_metadata" THEN d1
             ELSE Unlinked(d1, _get_metadata_path(path))

\* the metadata file of a path: what it holds, or None
MetadataOf(d, path) ==
    IF _get_metadata_path(path) \in DOMAIN d
    THEN Str(d[_get_metadata_path(path)])
    ELSE None

\* LocalStorageAdapter(storage_root), lines 82-94: the root and its two
\* directories exist and hold no file
NewAdapter ==
    /\ sop.op = "none"
    /\ disk' = <<>>
    /\ sop' = [op |-> "init", path |-> <<>>, ok |-> TRUE, loaded |-> None,
               found |-> FALSE, kept |-> <<>>]

\* a call of save; the history keeps the content of the last save of each
\* path that returned True, until the next save or delete of the path
Save(path, content, metadata, outcome) ==
    /\ sop.op # "none"
    /\ outcome = "raise_written" => Truthy(metadata)
    /\ disk' = local_save(disk, path, content, metadata, outcome)
    /\ sop' = [sop EXCEPT
                 !.op = "save", !.path = path, !.ok = (outcome = "ok"),
                 !.kept = IF outcome = "ok"
                          THEN FileWritten(@, path, content)
                          ELSE Unlinked(@, path)]

\* a call of delete
Delete(path, outcome) ==
    /\ sop.op # "none"
    /\ disk' = local_delete(disk, path, outcome)
    /\ sop' = [sop EXCEPT
                 !.op = "delete", !.path = path, !.ok = (outcome = "ok"),
                 !.kept = Unlinked(@, path)]

\* a call of load
Load(path) ==
    /\ sop.op # "none"
    /\ sop' = [sop EXCEPT !.op = "load", !.path = path, !.ok = TRUE,
                          !.loaded = local_load(disk, path)]
    /\ UNCHANGED disk

\* a call of exists
Exists(path) ==
    /\ sop.op # "none"
    /\ sop' = [sop EXCEPT !.op = "exists", !.path = path, !.ok = TRUE,
                          !.found = local_exists(disk, path)]
    /\ UNCHANGED disk

StorageInit ==
    /\ ChunkerIdle
    /\ ParseIdle
    /\ RunnerIdle
    /\ JobIdle
    /\ StageIdle
    /\ StorageIdle

StorageNext ==
    \/ NewAdapter
       /\ UNCHANGED <<chunkerVars, parseVars, runnerVars, jobVars, stageVars>>
    \/ \E path \in StoragePaths, content \in StorageContents,
          metadata \in Metadatas, outcome \in {"ok", "raise", "raise_written"} :
           Save(path, content, metadata, outcome)
           /\ UNCHANGED <<chunkerVars, parseVars, runnerVars, jobVars, stageVars>>
    \/ \E path \in StoragePaths, outcome \in {"ok", "fail", "fail_metadata"} :
           Delete(path, outcome)
           /\ UNCHANGED <<chunkerVars, parseVars, runnerVars, jobVars, stageVars>>
    \/ \E path \in StoragePaths :
           Load(path)
           /\ UNCHANGED <<chunkerVars, parseVars, runnerVars, jobVars, stageVars>>
    \/ \E path \in StoragePaths :
           Exists(path)
           /\ UNCHANGED <<chunkerVars, parseVars, runnerVars, jobVars, stageVars>>

StorageSpec == StorageInit /\ [][StorageNext]_vars

\* what load, exists and the metadata file say about a path is the same
\* before and after the step
SameFor(q) ==
    /\ local_load(disk', q) = local_load(disk, q)
    /\ local_exists(disk', q) = local_exists(disk, q)
    /\ MetadataOf(disk', q) = MetadataOf(disk, q)

\* C40: a save or a delete of path p changes nothing for any other path q
\* (load, exists and the metadata of q stay as they were), and after a save
\* of p that succeeded load(p) returns the content saved, until the next
\* save or delete of p.
C40_FrameAndRoundTrip ==
    [][/\ sop'.op \in {"save", "delete"} =>
              \A q \in StoragePaths \ {sop'.path} : SameFor(q)
       /\ \A p \in DOMAIN sop'.kept :
              local_load(disk', p) = Str(sop'.kept[p])]_vars

=============================================================================
